---------------------------- MODULE Spec2Model ----------------------------
(***************************************************************************)
(* Model of the pop-ups.dev embeddable SDK: the frequency-capping storage  *)
(* gate (shouldShowPopup / recordPopupShown / clearAllPopupData) and the   *)
(* trigger scheduler (setupTrigger and its four arming strategies).        *)
(*                                                                         *)
(* JavaScript strings that the code builds, stores or parses (storage keys *)
(* and storage values) are sequences of one-character strings, so that key *)
(* construction, Date.now().toString() and parseInt(s, 10) are computed    *)
(* and not assumed.  Values only compared with === (cap and trigger type   *)
(* names) are TLA+ strings.                                                *)
(***************************************************************************)
EXTENDS Integers, Sequences, FiniteSets, TLC

VARIABLES
    storageMode,     \* how the browser's Storage objects behave on this profile
    now,             \* Date.now(), milliseconds
    ticks,           \* number of clock advances so far
    sessionStorage,  \* window.sessionStorage: key -> value, DOMAIN = keys present
    localStorage,    \* window.localStorage:   key -> value, DOMAIN = keys present
    lastCall,        \* the storage-gate call made last: the operation, whether its cap
                     \* is one the policy table caps, and what it returned
    recordedSession, \* history: ids whose once_per_session recording was written in this
                     \* session, since the last bulk clear
    recordedAt,      \* history: id -> {t}, t the time of the last timestamp recording of id
                     \* made since the last bulk clear ({} when there is none)
    recordedForever  \* history: ids whose once_ever / once_lifetime recording was written
                     \* since the last bulk clear

VARIABLES
    touchEnv,        \* what the exit-intent trigger probes: 'ontouchstart' in window, navigator.maxTouchPoints
    scrollY,         \* window.scrollY
    scrollHeight,    \* document.documentElement.scrollHeight
    triggers,        \* the triggers set up so far, in order: the variables each closure captured
    frameRequests,   \* animation frame callbacks requested and neither run nor cancelled: {[id, trig]}
    timeouts,        \* timers set and neither expired nor cleared: {[id, trig]}
    scrollListeners, \* triggers whose handleScroll is a 'scroll' listener of window
    leaveListeners,  \* triggers whose handleMouseLeave is a 'mouseleave' listener of document
    calls,           \* history: per trigger, the number of invocations of its onTrigger
    firedOn,         \* history: per trigger, the step that invoked onTrigger first ("" when none did)
    cancelled,       \* history: the triggers whose cleanup was called before they fired
    lastEvent        \* the step taken last: [op, arg]

VARIABLES
    viewportWidth,   \* the width the media queries of getDeviceType are matched against, px
    lastCheck        \* the isDeviceAllowed call made last: [rules, ret]

VARIABLES
    hasApiKey,       \* whether a script tag carries data-api-key or data-project-id
    initState,       \* the promise of init(): "idle" before the call, then "fetching",
                     \* "resolved" or "rejected"
    fetches,         \* history: the number of fetch() calls made
    response,        \* history: how the fetch settled: [kind, status]
    candidates,      \* the list fetchPopupConfigs resolved to
    statuses,        \* per candidate, how processPopup ended and the checks it made
    triggered,       \* the candidates whose trigger called showPopup
    popups,          \* the popups shown, in order: configuration, margin cleanup, timers
    bodyChildren,    \* the hosts in document.body, in document order
    marginBefore,    \* history: document.body.style.marginTop before any popup was shown
    bodyMargin       \* document.body.style: [top |-> marginTop, bottom |-> marginBottom]

VARIABLES
    heap,            \* the objects of the page, by address: first those of the module
    heapBefore,      \* history: the heap when mergeWithDefaults was called last, <<>>
                     \* when it was not called
    rawConfig,       \* the address of the configuration merged last, 0 when none was
    rawSize,         \* history: the number of objects the configuration was made of
    mergedConfig,    \* the address of the result of the last merge, 0 when none
    usedBranding,    \* the branding passed to the last merge
    merges           \* the number of mergeWithDefaults calls made

freqVars == <<storageMode, now, ticks, sessionStorage, localStorage, lastCall,
              recordedSession, recordedAt, recordedForever>>

\* what the trigger functions and the browser hold, without the history
triggerState == <<triggers, frameRequests, timeouts, scrollListeners, leaveListeners>>

trigVars == <<touchEnv, scrollY, scrollHeight, triggers, frameRequests, timeouts,
              scrollListeners, leaveListeners, calls, firedOn, cancelled, lastEvent>>

devVars == <<viewportWidth, lastCheck>>

sdkVars == <<hasApiKey, initState, fetches, response, candidates, statuses, triggered,
             popups, bodyChildren, marginBefore, bodyMargin>>

mergeVars == <<heap, heapBefore, rawConfig, rawSize, mergedConfig, usedBranding, merges>>

\* what the steps of one component leave alone
outsideFreq == <<trigVars, devVars, sdkVars, mergeVars>>

outsideTrig == <<freqVars, devVars, sdkVars, mergeVars>>

outsideDev == <<freqVars, trigVars, sdkVars, mergeVars>>

outsideSdk == <<freqVars, trigVars, devVars, mergeVars>>

outsideMerge == <<freqVars, trigVars, devVars, sdkVars>>

vars == <<freqVars, trigVars, devVars, sdkVars, mergeVars>>

-----------------------------------------------------------------------------
(* Bounds of the model *)

MaxTicks == 2

MaxNow == 1300000000

MaxTriggers == 2

\* the configurations of one API response
MaxConfigs == 2

\* the popups a page shows itself
MaxPopups == 2

\* the clicks a visitor makes on the popups of one page
MaxClicks == 2

\* the mergeWithDefaults calls of one page
MaxMerges == 2

-----------------------------------------------------------------------------
(* JavaScript strings *)

Digits == <<"0", "1", "2", "3", "4", "5", "6", "7", "8", "9">>

DigitValue(c) == CHOOSE d \in 0..9 : Digits[d + 1] = c

IsDigit(c) == \E d \in 0..9 : Digits[d + 1] = c

RECURSIVE NatToString(_)
\* Number.prototype.toString for a non-negative integer: its decimal digits
NatToString(n) ==
    IF n < 10 THEN <<Digits[n + 1]>>
    ELSE NatToString(n \div 10) \o <<Digits[(n % 10) + 1]>>

\* Date.now().toString()
numberToString(n) == IF n < 0 THEN <<"-">> \o NatToString(0 - n) ELSE NatToString(n)

RECURSIVE DigitPrefixValue(_, _, _)
\* value of the longest run of decimal digits of s from position i on, acc so far
DigitPrefixValue(s, i, acc) ==
    IF i > Len(s) \/ ~IsDigit(s[i]) THEN acc
    ELSE DigitPrefixValue(s, i + 1, acc * 10 + DigitValue(s[i]))

\* parseInt(s, 10): optional sign, then the longest digit prefix; NaN when there is none
ParseInt(s) ==
    LET signed == Len(s) > 0 /\ s[1] \in {"-", "+"}
        first  == IF signed THEN 2 ELSE 1
    IN  IF first > Len(s) \/ ~IsDigit(s[first]) THEN [isNaN |-> TRUE, n |-> 0]
        ELSE IF signed /\ s[1] = "-"
        THEN [isNaN |-> FALSE, n |-> 0 - DigitPrefixValue(s, first, 0)]
        ELSE [isNaN |-> FALSE, n |-> DigitPrefixValue(s, first, 0)]

\* String.prototype.startsWith
StartsWith(s, p) == Len(s) >= Len(p) /\ SubSeq(s, 1, Len(p)) = p

\* the value null; no JavaScript string is equal to it
JsNull == <<"null">>

JsTrue == <<"t", "r", "u", "e">>

-----------------------------------------------------------------------------
(* The browser's Storage objects *)

StorageModes == {"ok", "throws"}

\* Storage.getItem: the stored value or null; throws when storage is unavailable
getItem(store, key) ==
    IF storageMode = "throws" THEN [threw |-> TRUE, value |-> JsNull]
    ELSE [threw |-> FALSE,
          value |-> IF key \in DOMAIN store THEN store[key] ELSE JsNull]

\* Storage.setItem: throws when storage is unavailable
setItem(store, key, value) ==
    IF storageMode = "throws" THEN [threw |-> TRUE, store |-> store]
    ELSE [threw |-> FALSE,
          store |-> [k \in DOMAIN store \cup {key} |->
                        IF k = key THEN value ELSE store[k]]]

\* Storage.removeItem for a set of keys
removeItems(store, keys) == [k \in DOMAIN store \ keys |-> store[k]]

-----------------------------------------------------------------------------
(* Frequency capping *)

STORAGE_PREFIX == <<"p", "o", "p", "u", "p", "s", "_", "d", "e", "v", "_">>

PopupIds == {<<"a">>, <<"b">>}

SessionCaps == {"once_per_session"}

DayCaps == {"once_per_day", "once_per_user_24h"}

WeekCaps == {"once_per_week"}

LifetimeCaps == {"once_ever", "once_lifetime"}

TimeCaps == DayCaps \cup WeekCaps

CappedCaps == SessionCaps \cup TimeCaps \cup LifetimeCaps

\* caps with no case of their own in the switch: a misspelt cap, and a
\* frequency object without a cap
UnknownCaps == {"sometimes", "undefined"}

Caps == {"always"} \cup CappedCaps \cup UnknownCaps

getSessionKey(popupId) == STORAGE_PREFIX \o popupId \o <<"_", "s", "e", "s", "s", "i", "o", "n">>

getTimestampKey(popupId) ==
    STORAGE_PREFIX \o popupId \o <<"_", "l", "a", "s", "t", "_", "s", "h", "o", "w", "n">>

getLifetimeKey(popupId) ==
    STORAGE_PREFIX \o popupId \o <<"_", "l", "i", "f", "e", "t", "i", "m", "e">>

oneDay == 24 * 60 * 60 * 1000

oneWeek == 7 * 24 * 60 * 60 * 1000

hasShownThisSession(popupId) ==
    LET r == getItem(sessionStorage, getSessionKey(popupId))
    IN  IF r.threw THEN FALSE ELSE r.value = JsTrue

\* a variant that stores '1' where hasShownThisSession compares with 'true'
markShownThisSession_wrongFlag(popupId) ==
    setItem(sessionStorage, getSessionKey(popupId), <<"1">>)

markShownThisSession(popupId) == setItem(sessionStorage, getSessionKey(popupId), JsTrue)

\* the body shared by hasShownInLast24Hours and hasShownInLastWeek
hasShownWithin(popupId, window) ==
    LET r == getItem(localStorage, getTimestampKey(popupId))
    IN  IF r.threw THEN FALSE
        ELSE IF r.value = JsNull \/ r.value = <<>> THEN FALSE
        ELSE LET lastShownTime == ParseInt(r.value)
             IN  IF lastShownTime.isNaN THEN FALSE
                 ELSE (now - lastShownTime.n) < window

hasShownInLast24Hours(popupId) == hasShownWithin(popupId, oneDay)

\* a variant that copies the one-day window into the week check
hasShownInLastWeek_dayWindow(popupId) == hasShownWithin(popupId, oneDay)

hasShownInLastWeek(popupId) == hasShownWithin(popupId, oneWeek)

markShownWithTimestamp(popupId) ==
    setItem(localStorage, getTimestampKey(popupId), numberToString(now))

hasEverShown(popupId) ==
    LET r == getItem(localStorage, getLifetimeKey(popupId))
    IN  IF r.threw THEN FALSE ELSE r.value = JsTrue

\* a variant that stores the timestamp where hasEverShown compares with 'true'
markShownForever_timestamp(popupId) ==
    setItem(localStorage, getLifetimeKey(popupId), numberToString(now))

markShownForever(popupId) == setItem(localStorage, getLifetimeKey(popupId), JsTrue)

shouldShowPopup(popupId, cap) ==
    CASE cap = "always"            -> TRUE
      [] cap = "once_per_session"  -> ~hasShownThisSession(popupId)
      [] cap = "once_per_day"      -> ~hasShownInLast24Hours(popupId)
      [] cap = "once_per_week"     -> ~hasShownInLastWeek(popupId)
      [] cap = "once_ever"         -> ~hasEverShown(popupId)
      [] cap = "once_per_user_24h" -> ~hasShownInLast24Hours(popupId)
      [] cap = "once_lifetime"     -> ~hasEverShown(popupId)
      [] OTHER                     -> TRUE

\* the switch of recordPopupShown: which store is written and whether the write threw
recordSwitch(popupId, cap) ==
    CASE cap = "once_per_session" ->
            LET w == markShownThisSession(popupId)
            IN  [session |-> w.store, local |-> localStorage, threw |-> w.threw]
      [] cap \in {"once_per_day", "once_per_user_24h"} ->
            LET w == markShownWithTimestamp(popupId)
            IN  [session |-> sessionStorage, local |-> w.store, threw |-> w.threw]
      [] cap = "once_per_week" ->
            LET w == markShownWithTimestamp(popupId)
            IN  [session |-> sessionStorage, local |-> w.store, threw |-> w.threw]
      [] cap \in {"once_ever", "once_lifetime"} ->
            LET w == markShownForever(popupId)
            IN  [session |-> sessionStorage, local |-> w.store, threw |-> w.threw]
      [] OTHER ->
            [session |-> sessionStorage, local |-> localStorage, threw |-> FALSE]

\* a variant that records cap always like once_per_session
recordPopupShown_alwaysPerSession(popupId, cap) ==
    LET r == recordSwitch(popupId, IF cap = "always" THEN "once_per_session" ELSE cap)
    IN  [session |-> r.session, local |-> r.local, threw |-> FALSE, warned |-> r.threw]

\* a variant without the try / catch: the storage exception reaches the caller
recordPopupShown_noCatch(popupId, cap) ==
    LET r == recordSwitch(popupId, cap)
    IN  [session |-> r.session, local |-> r.local, threw |-> r.threw, warned |-> FALSE]

\* recordPopupShown: the switch inside try, the catch logs a warning and returns
recordPopupShown(popupId, cap) ==
    LET r == recordSwitch(popupId, cap)
    IN  [session |-> r.session, local |-> r.local, threw |-> FALSE, warned |-> r.threw]

\* the keys clearAllPopupData collects from one store
prefixedKeys(store) == {k \in DOMAIN store : StartsWith(k, STORAGE_PREFIX)}

\* mutation: only localStorage is cleared
clearAllPopupData_localOnly ==
    IF storageMode = "throws"
    THEN [session |-> sessionStorage, local |-> localStorage, threw |-> FALSE, warned |-> TRUE]
    ELSE [session |-> sessionStorage,
          local   |-> removeItems(localStorage, prefixedKeys(localStorage)),
          threw   |-> FALSE, warned |-> FALSE]

\* clearAllPopupData: reading localStorage.length throws at once when storage is unavailable
clearAllPopupData ==
    IF storageMode = "throws"
    THEN [session |-> sessionStorage, local |-> localStorage, threw |-> FALSE, warned |-> TRUE]
    ELSE [session |-> removeItems(sessionStorage, prefixedKeys(sessionStorage)),
          local   |-> removeItems(localStorage, prefixedKeys(localStorage)),
          threw   |-> FALSE, warned |-> FALSE]

-----------------------------------------------------------------------------
(* The storage gate as a state machine *)

\* a key of the embedding page, which the SDK does not own
HostKey == <<"t", "h", "e", "m", "e">>

HostStore == [k \in {HostKey} |-> <<"d", "a", "r", "k">>]

\* steps of the simulated clock
ClockSteps == {1, oneDay - 1, oneWeek - 1}

\* no storage-gate call was made since the last step of the environment
NoCall == [op |-> "none", capped |-> FALSE, ret |-> "undefined"]

\* the storage gate before any call, with storage in the given mode
FreshGate(mode) ==
    /\ storageMode = mode
    /\ now = 0
    /\ ticks = 0
    /\ sessionStorage = HostStore
    /\ localStorage = HostStore
    /\ lastCall = NoCall
    /\ recordedSession = {}
    /\ recordedAt = [id \in PopupIds |-> {}]
    /\ recordedForever = {}

ShouldShowPopup(popupId, cap) ==
    /\ lastCall' = [op |-> "shouldShowPopup", capped |-> cap \in CappedCaps,
                    ret |-> IF shouldShowPopup(popupId, cap) THEN "true" ELSE "false"]
    /\ UNCHANGED <<storageMode, now, ticks, sessionStorage, localStorage,
                   recordedSession, recordedAt, recordedForever>>
    /\ UNCHANGED outsideFreq

RecordPopupShown(popupId, cap) ==
    LET r == recordPopupShown(popupId, cap)
    IN  /\ sessionStorage' = r.session
        /\ localStorage' = r.local
        /\ lastCall' = [op |-> "recordPopupShown", capped |-> cap \in CappedCaps,
                        ret |-> IF r.threw THEN "exception" ELSE "undefined"]
        /\ recordedSession' = IF cap \in SessionCaps /\ ~r.warned
                              THEN recordedSession \cup {popupId}
                              ELSE recordedSession
        /\ recordedAt' = IF cap \in TimeCaps
                         THEN [recordedAt EXCEPT ![popupId] = {now}]
                         ELSE recordedAt
        /\ recordedForever' = IF cap \in LifetimeCaps /\ ~r.warned
                              THEN recordedForever \cup {popupId}
                              ELSE recordedForever
        /\ UNCHANGED <<storageMode, now, ticks>>
        /\ UNCHANGED outsideFreq

ClearAllPopupData ==
    LET r == clearAllPopupData
    IN  /\ sessionStorage' = r.session
        /\ localStorage' = r.local
        /\ lastCall' = [op |-> "clearAllPopupData", capped |-> FALSE,
                        ret |-> IF r.threw THEN "exception" ELSE "undefined",
                        removed |-> Cardinality(DOMAIN sessionStorage \ DOMAIN r.session)
                                    + Cardinality(DOMAIN localStorage \ DOMAIN r.local)]
        /\ recordedSession' = {}
        /\ recordedAt' = [id \in PopupIds |-> {}]
        /\ recordedForever' = {}
        /\ UNCHANGED <<storageMode, now, ticks>>
        /\ UNCHANGED outsideFreq

\* the clock moves on between two calls
AdvanceClock(d) ==
    /\ ticks < MaxTicks
    /\ now + d <= MaxNow
    /\ now' = now + d
    /\ ticks' = ticks + 1
    /\ lastCall' = NoCall
    /\ UNCHANGED <<storageMode, sessionStorage, localStorage,
                   recordedSession, recordedAt, recordedForever>>
    /\ UNCHANGED outsideFreq

\* the tab is closed and the page opened in a new one: sessionStorage starts over
NewSession ==
    /\ sessionStorage' = HostStore
    /\ lastCall' = NoCall
    /\ recordedSession' = {}
    /\ UNCHANGED <<storageMode, now, ticks, localStorage,
                   recordedAt, recordedForever>>
    /\ UNCHANGED outsideFreq

NextFreq ==
    \/ \E popupId \in PopupIds, cap \in Caps : ShouldShowPopup(popupId, cap)
    \/ \E popupId \in PopupIds, cap \in Caps : RecordPopupShown(popupId, cap)
    \/ ClearAllPopupData
    \/ \E d \in ClockSteps : AdvanceClock(d)
    \/ NewSession

-----------------------------------------------------------------------------
(* Triggers: setupTrigger, the four arming strategies and their cleanups *)

\* the trigger types setupTrigger knows, and one it does not
KnownTriggerTypes == {"immediate", "time_delay", "scroll_percent", "exit_intent"}

UnknownTriggerTypes == {"hover"}

TriggerTypes == KnownTriggerTypes \cup UnknownTriggerTypes

\* the trigger configurations of the model: {type, value}
TriggerConfigs ==
    [type : {"immediate", "exit_intent"} \cup UnknownTriggerTypes, value : {0}]
        \cup [type : {"time_delay"}, value : {5}]
        \cup [type : {"scroll_percent"}, value : {0, 50}]

\* window.innerHeight
innerHeight == 800

\* document heights: a page that fits the window and one that scrolls by 1000
DocHeights == {innerHeight, innerHeight + 1000}

ScrollPositions == {0, 250, 500, 750}

\* the furthest the browser scrolls a document of height h
maxScroll(h) == IF h - innerHeight > 0 THEN h - innerHeight ELSE 0

\* e.clientY of the mouseleave events
ClientYs == {0 - 3, 0, 12}

\* the probes of the exit-intent trigger
TouchEnvs == {[ontouchstart |-> FALSE, maxTouchPoints |-> 0],
              [ontouchstart |-> TRUE, maxTouchPoints |-> 0],
              [ontouchstart |-> FALSE, maxTouchPoints |-> 1]}

\* the switch of setupTrigger: the arming strategy of a type, the default arm
\* falling back on the immediate one
strategy(type) ==
    CASE type = "immediate" -> "immediate"
      [] type = "time_delay" -> "time_delay"
      [] type = "scroll_percent" -> "scroll_percent"
      [] type = "exit_intent" -> "exit_intent"
      [] OTHER -> "immediate"

\* what a setup function leaves behind when it returns: the variables its closures
\* captured (the configuration, hasTriggered, the frame or timer id), what it
\* registered with the browser, and whether it invoked onTrigger itself
Armed(type, value, hasTriggered, handle, frame, timeout, scroll, leave, fired) ==
    [closure |-> [type |-> type, value |-> value,
                  hasTriggered |-> hasTriggered, handle |-> handle],
     frame |-> frame, timeout |-> timeout, scroll |-> scroll, leave |-> leave,
     fired |-> fired]

\* mutation: onTrigger is called in place, no frame is requested
setupImmediateTrigger_inPlace(type, value, frameId) ==
    Armed(type, value, FALSE, frameId, FALSE, FALSE, FALSE, FALSE, TRUE)

setupImmediateTrigger(type, value, frameId) ==
    Armed(type, value, FALSE, frameId, TRUE, FALSE, FALSE, FALSE, FALSE)

setupDelayTrigger(type, seconds, timeoutId) ==
    Armed(type, seconds, FALSE, timeoutId, FALSE, TRUE, FALSE, FALSE, FALSE)

\* (scrolled / scrollHeight) * 100, or 0 when the page cannot scroll, as a
\* fraction; the positions and heights of the model give fractions that the
\* floating-point division of the code represents exactly
currentPercent(y, h) ==
    LET scrollable == h - innerHeight
    IN  IF scrollable > 0
        THEN [num |-> y * 100, den |-> scrollable]
        ELSE [num |-> 0, den |-> 1]

\* mutation: the threshold has to be exceeded
percentReached_strict(y, h, percentage) ==
    currentPercent(y, h).num > percentage * currentPercent(y, h).den

\* currentPercent >= percentage
percentReached(y, h, percentage) ==
    currentPercent(y, h).num >= percentage * currentPercent(y, h).den

\* mutation: hasTriggered is neither tested nor set and the listener stays
handleScroll_noLatch(closure, y, h) ==
    [closure |-> closure, fired |-> percentReached(y, h, closure.value),
     remove |-> FALSE]

\* one run of handleScroll: the closure afterwards, whether it invoked onTrigger
\* and whether it removed itself from the scroll listeners
handleScroll(closure, y, h) ==
    IF closure.hasTriggered
    THEN [closure |-> closure, fired |-> FALSE, remove |-> FALSE]
    ELSE IF percentReached(y, h, closure.value)
         THEN [closure |-> [closure EXCEPT !.hasTriggered = TRUE],
               fired |-> TRUE, remove |-> TRUE]
         ELSE [closure |-> closure, fired |-> FALSE, remove |-> FALSE]

\* handleScroll runs once at arming; the listener is added when that did not fire
setupScrollTrigger(type, percentage, y, h) ==
    LET first == handleScroll([type |-> type, value |-> percentage,
                               hasTriggered |-> FALSE, handle |-> 0], y, h)
    IN  Armed(type, percentage, first.closure.hasTriggered, 0,
              FALSE, FALSE, ~first.closure.hasTriggered, FALSE, first.fired)

\* one run of handleMouseLeave
handleMouseLeave(closure, clientY) ==
    IF closure.hasTriggered
    THEN [closure |-> closure, fired |-> FALSE, remove |-> FALSE]
    ELSE IF clientY <= 0
         THEN [closure |-> [closure EXCEPT !.hasTriggered = TRUE],
               fired |-> TRUE, remove |-> TRUE]
         ELSE [closure |-> closure, fired |-> FALSE, remove |-> FALSE]

\* mutation: only the ontouchstart probe is made
isTouchDevice_ontouchstartOnly(env) == env.ontouchstart

isTouchDevice(env) == env.ontouchstart \/ env.maxTouchPoints > 0

setupExitIntentTrigger(type, value, env) ==
    Armed(type, value, FALSE, 0, FALSE, FALSE, FALSE, ~isTouchDevice(env), FALSE)

\* the next id requestAnimationFrame and setTimeout hand out: each is a counter
\* of its own, and only the triggers take ids in the model
nextFrameId ==
    1 + Cardinality({t \in DOMAIN triggers : strategy(triggers[t].type) = "immediate"})

nextTimeoutId ==
    1 + Cardinality({t \in DOMAIN triggers : strategy(triggers[t].type) = "time_delay"})

\* cancelAnimationFrame and clearTimeout: an id that is not pending is ignored
cancelAnimationFrame(requests, id) == {r \in requests : r.id # id}

clearTimeout(timers, id) == {r \in timers : r.id # id}

\* removeEventListener: a listener that is not registered is ignored
removeEventListener(listeners, t) == listeners \ {t}

\* mutation: the cleanup of a delay trigger clears no timer
cleanupDelay_keepsTimer(timers, closure) == timers

\* the cleanup functions the setup functions return
cleanupImmediate(requests, closure) == cancelAnimationFrame(requests, closure.handle)

cleanupDelay(timers, closure) == clearTimeout(timers, closure.handle)

cleanupScroll(listeners, t) == removeEventListener(listeners, t)

cleanupExitIntent(listeners, t) == removeEventListener(listeners, t)

\* the history after the triggers in fired had onTrigger invoked by step op
callsAfter(fired) == [t \in DOMAIN calls |-> IF t \in fired THEN calls[t] + 1 ELSE calls[t]]

firedOnAfter(fired, op) ==
    [t \in DOMAIN firedOn |-> IF t \in fired /\ firedOn[t] = "" THEN op ELSE firedOn[t]]

NoEvent == [op |-> "none", arg |-> 0]

\* a page on which no trigger was set up
NoTriggers(env, h) ==
    /\ touchEnv = env
    /\ scrollY = 0
    /\ scrollHeight = h
    /\ triggers = <<>>
    /\ frameRequests = {}
    /\ timeouts = {}
    /\ scrollListeners = {}
    /\ leaveListeners = {}
    /\ calls = <<>>
    /\ firedOn = <<>>
    /\ cancelled = {}
    /\ lastEvent = NoEvent

\* setupTrigger(triggerConfig, onTrigger) up to its return
SetupTrigger(config) ==
    /\ Len(triggers) < MaxTriggers
    /\ LET t == Len(triggers) + 1
           kind == strategy(config.type)
           a == CASE kind = "immediate" ->
                         setupImmediateTrigger(config.type, config.value, nextFrameId)
                  [] kind = "time_delay" ->
                         setupDelayTrigger(config.type, config.value, nextTimeoutId)
                  [] kind = "scroll_percent" ->
                         setupScrollTrigger(config.type, config.value, scrollY, scrollHeight)
                  [] kind = "exit_intent" ->
                         setupExitIntentTrigger(config.type, config.value, touchEnv)
       IN  /\ triggers' = Append(triggers, a.closure)
           /\ frameRequests' = IF a.frame
                               THEN frameRequests \cup {[id |-> a.closure.handle, trig |-> t]}
                               ELSE frameRequests
           /\ timeouts' = IF a.timeout
                          THEN timeouts \cup {[id |-> a.closure.handle, trig |-> t]}
                          ELSE timeouts
           /\ scrollListeners' = IF a.scroll THEN scrollListeners \cup {t} ELSE scrollListeners
           /\ leaveListeners' = IF a.leave THEN leaveListeners \cup {t} ELSE leaveListeners
           /\ calls' = Append(calls, IF a.fired THEN 1 ELSE 0)
           /\ firedOn' = Append(firedOn, IF a.fired THEN "setup" ELSE "")
    /\ lastEvent' = [op |-> "setup", arg |-> 0]
    /\ UNCHANGED <<touchEnv, scrollY, scrollHeight, cancelled>>
    /\ UNCHANGED outsideTrig

\* the browser paints a frame: every requested callback runs, each invoking
\* the onTrigger of its trigger
AnimationFrame ==
    LET fired == {r.trig : r \in frameRequests}
    IN  /\ frameRequests' = {}
        /\ calls' = callsAfter(fired)
        /\ firedOn' = firedOnAfter(fired, "frame")
        /\ lastEvent' = [op |-> "frame", arg |-> 0]
        /\ UNCHANGED <<touchEnv, scrollY, scrollHeight, triggers, timeouts,
                       scrollListeners, leaveListeners, cancelled>>
        /\ UNCHANGED outsideTrig

\* a timer expires: its callback invokes onTrigger; the length of the delay is
\* left open, the timer expires at any step after it was set
TimerExpiry(r) ==
    /\ r \in timeouts
    /\ timeouts' = timeouts \ {r}
    /\ calls' = callsAfter({r.trig})
    /\ firedOn' = firedOnAfter({r.trig}, "timeout")
    /\ lastEvent' = [op |-> "timeout", arg |-> 0]
    /\ UNCHANGED <<touchEnv, scrollY, scrollHeight, triggers, frameRequests,
                   scrollListeners, leaveListeners, cancelled>>
    /\ UNCHANGED outsideTrig

\* the page is scrolled to y: the scroll event runs every registered handleScroll
ScrollEvent(y) ==
    /\ y <= maxScroll(scrollHeight)
    /\ y # scrollY
    /\ scrollY' = y
    /\ LET run == [t \in scrollListeners |-> handleScroll(triggers[t], y, scrollHeight)]
           fired == {t \in scrollListeners : run[t].fired}
       IN  /\ triggers' = [t \in DOMAIN triggers |->
                              IF t \in scrollListeners THEN run[t].closure ELSE triggers[t]]
           /\ scrollListeners' = {t \in scrollListeners : ~run[t].remove}
           /\ calls' = callsAfter(fired)
           /\ firedOn' = firedOnAfter(fired, "scroll")
    /\ lastEvent' = [op |-> "scroll", arg |-> 0]
    /\ UNCHANGED <<touchEnv, scrollHeight, frameRequests, timeouts, leaveListeners, cancelled>>
    /\ UNCHANGED outsideTrig

\* the document grows or shrinks to height h; the browser keeps the scroll
\* position within the new range and runs no handler of the triggers
Resize(h) ==
    /\ h # scrollHeight
    /\ scrollHeight' = h
    /\ scrollY' = IF scrollY > maxScroll(h) THEN maxScroll(h) ELSE scrollY
    /\ lastEvent' = [op |-> "resize", arg |-> 0]
    /\ UNCHANGED <<touchEnv, triggers, frameRequests, timeouts, scrollListeners,
                   leaveListeners, calls, firedOn, cancelled>>
    /\ UNCHANGED outsideTrig

\* the pointer leaves the document at clientY: the mouseleave event runs every
\* registered handleMouseLeave
MouseLeave(clientY) ==
    /\ LET run == [t \in leaveListeners |-> handleMouseLeave(triggers[t], clientY)]
           fired == {t \in leaveListeners : run[t].fired}
       IN  /\ triggers' = [t \in DOMAIN triggers |->
                              IF t \in leaveListeners THEN run[t].closure ELSE triggers[t]]
           /\ leaveListeners' = {t \in leaveListeners : ~run[t].remove}
           /\ calls' = callsAfter(fired)
           /\ firedOn' = firedOnAfter(fired, "mouseleave")
    /\ lastEvent' = [op |-> "mouseleave", arg |-> clientY]
    /\ UNCHANGED <<touchEnv, scrollY, scrollHeight, frameRequests, timeouts,
                   scrollListeners, cancelled>>
    /\ UNCHANGED outsideTrig

\* the cleanup function setupTrigger returned for trigger t is called
Cleanup(t) ==
    /\ t \in DOMAIN triggers
    /\ LET kind == strategy(triggers[t].type)
       IN  /\ frameRequests' = IF kind = "immediate"
                               THEN cleanupImmediate(frameRequests, triggers[t])
                               ELSE frameRequests
           /\ timeouts' = IF kind = "time_delay"
                          THEN cleanupDelay(timeouts, triggers[t])
                          ELSE timeouts
           /\ scrollListeners' = IF kind = "scroll_percent"
                                 THEN cleanupScroll(scrollListeners, t)
                                 ELSE scrollListeners
           /\ leaveListeners' = IF kind = "exit_intent"
                                THEN cleanupExitIntent(leaveListeners, t)
                                ELSE leaveListeners
    /\ cancelled' = IF calls[t] = 0 THEN cancelled \cup {t} ELSE cancelled
    /\ lastEvent' = [op |-> "cleanup", arg |-> t]
    /\ UNCHANGED <<touchEnv, scrollY, scrollHeight, triggers, calls, firedOn>>
    /\ UNCHANGED outsideTrig

NextTrig ==
    \/ \E config \in TriggerConfigs : SetupTrigger(config)
    \/ AnimationFrame
    \/ \E r \in timeouts : TimerExpiry(r)
    \/ \E y \in ScrollPositions : ScrollEvent(y)
    \/ \E h \in DocHeights : Resize(h)
    \/ \E clientY \in ClientYs : MouseLeave(clientY)
    \/ \E t \in 1..MaxTriggers : Cleanup(t)

-----------------------------------------------------------------------------
(* Device targeting: getDeviceType and isDeviceAllowed *)

\* an absent value: undefined, or a key an object does not have
Absent == [absent |-> TRUE]

DeviceKeys == {"mobile", "tablet", "desktop"}

\* device rules: objects with any of the three keys, each true or false
DeviceRules == UNION {[keys -> BOOLEAN] : keys \in SUBSET DeviceKeys}

\* viewport widths on both sides of the two breakpoints
Widths == {320, 480, 481, 768, 769, 1280}

\* window.matchMedia('(max-width: Npx)').matches
matchesMaxWidth(width, n) == width <= n

getDeviceType(width) ==
    IF matchesMaxWidth(width, 480) THEN "mobile"
    ELSE IF matchesMaxWidth(width, 768) THEN "tablet"
    ELSE "desktop"

\* obj.key === false
isFalse(obj, key) == key \in DOMAIN obj /\ obj[key] = FALSE

\* mutation: every key is tested, whatever the current device
isDeviceAllowed_anyKey(deviceRules, width) ==
    IF deviceRules = Absent THEN TRUE
    ELSE ~(\E key \in DeviceKeys : isFalse(deviceRules, key))

isDeviceAllowed(deviceRules, width) ==
    IF deviceRules = Absent THEN TRUE
    ELSE LET currentDevice == getDeviceType(width)
         IN  IF currentDevice = "mobile" /\ isFalse(deviceRules, "mobile") THEN FALSE
             ELSE IF currentDevice = "tablet" /\ isFalse(deviceRules, "tablet") THEN FALSE
             ELSE IF currentDevice = "desktop" /\ isFalse(deviceRules, "desktop") THEN FALSE
             ELSE TRUE

NoCheck == [rules |-> Absent, ret |-> "none"]

\* a page of the given width on which isDeviceAllowed was not called
Viewport(width) ==
    /\ viewportWidth = width
    /\ lastCheck = NoCheck

IsDeviceAllowed(deviceRules) ==
    /\ lastCheck' = [rules |-> deviceRules,
                     ret |-> IF isDeviceAllowed(deviceRules, viewportWidth)
                             THEN "true" ELSE "false"]
    /\ UNCHANGED viewportWidth
    /\ UNCHANGED outsideDev

\* the window is resized, or the device rotated
ResizeViewport(width) ==
    /\ width # viewportWidth
    /\ viewportWidth' = width
    /\ lastCheck' = NoCheck
    /\ UNCHANGED outsideDev

NextDev ==
    \/ \E deviceRules \in DeviceRules \cup {Absent} : IsDeviceAllowed(deviceRules)
    \/ \E width \in Widths : ResizeViewport(width)

-----------------------------------------------------------------------------
(* The orchestrator: getApiKey, fetchPopupConfigs, processPopup and init *)

\* obj.key, Absent when obj is undefined or has no such key (obj?.key)
Get(obj, key) == IF key \in DOMAIN obj THEN obj[key] ELSE Absent

\* obj.key === s
isString(obj, key, s) == key \in DOMAIN obj /\ obj[key] = s

\* the popup configurations the API serves in the model.  Keys a configuration
\* does not have are absent from its record.
CandidatePool ==
    {[id |-> <<"a">>, type |-> "modal",
      buttons |-> <<[text |-> "OK", action |-> "close"]>>,
      rules |-> [frequency |-> [cap |-> "once_per_session"],
                 trigger |-> [type |-> "immediate", value |-> 0]]],
     [id |-> <<"b">>, type |-> "top_bar",
      rules |-> [deviceTargeting |-> [k \in {"mobile"} |-> FALSE],
                 frequency |-> [cap |-> "always"],
                 trigger |-> [type |-> "time_delay", value |-> 5]]],
     [id |-> <<"b">>,
      design |-> [type |-> "top_bar", position |-> "bottom"],
      rules |-> [frequency |-> [cap |-> "once_ever"],
                 trigger |-> [type |-> "scroll_percent", value |-> 50]]],
     [id |-> <<"a">>, type |-> "modal", closable |-> FALSE],
     [id |-> <<"a">>, type |-> "top_bar", fixed |-> FALSE,
      rules |-> [trigger |-> [type |-> "exit_intent", value |-> 0]]],
     [id |-> <<"b">>, type |-> "top_bar", pushContent |-> FALSE,
      rules |-> [frequency |-> [cap |-> "always"]]],
     [type |-> "carousel",
      rules |-> [frequency |-> [cap |-> "sometimes"],
                 trigger |-> [type |-> "hover", value |-> 0]]],
     [id |-> <<"b">>, type |-> "modal",
      rules |-> [deviceTargeting |-> [k \in DeviceKeys |-> FALSE]]]}

RECURSIVE ListsUpTo(_, _)
\* the lists of at most n elements of S
ListsUpTo(S, n) ==
    IF n = 0 THEN {<<>>}
    ELSE LET shorter == ListsUpTo(S, n - 1)
         IN  shorter \cup {Append(l, x) : l \in {s \in shorter : Len(s) = n - 1}, x \in S}

\* what fetch() does: it rejects, or resolves to a response with a status and a
\* body that parses as a list of configurations or does not parse
FetchOutcomes ==
    {[kind |-> "rejects", status |-> 0, json |-> <<>>, parses |-> FALSE]}
        \cup [kind : {"resolves"}, status : {403, 404, 500},
              json : ListsUpTo(CandidatePool, 1), parses : {TRUE}]
        \cup [kind : {"resolves"}, status : {200}, json : {<<>>}, parses : {FALSE}]
        \cup [kind : {"resolves"}, status : {200},
              json : ListsUpTo(CandidatePool, MaxConfigs), parses : {TRUE}]

\* response.ok
responseOk(status) == status >= 200 /\ status <= 299

\* mutation: the status of the response is not looked at
fetchPopupConfigs_anyStatus(outcome) ==
    IF outcome.kind = "rejects" \/ ~outcome.parses THEN <<>> ELSE outcome.json

\* fetchPopupConfigs after its one fetch settled: a rejection, a status that is
\* not ok and a body that does not parse all end in the catch, which returns []
fetchPopupConfigs(outcome) ==
    IF outcome.kind = "rejects" THEN <<>>
    ELSE IF ~responseOk(outcome.status) THEN <<>>
    ELSE IF ~outcome.parses THEN <<>>
    ELSE outcome.json

\* `${config.id}` in the storage keys: "undefined" for a configuration without id
idString(config) ==
    IF "id" \in DOMAIN config THEN config.id
    ELSE <<"u", "n", "d", "e", "f", "i", "n", "e", "d">>

\* frequencyConfig.cap, undefined when the key is missing
capOf(frequencyConfig) ==
    IF "cap" \in DOMAIN frequencyConfig THEN frequencyConfig.cap ELSE "undefined"

\* mutation: the frequency gate is asked before the device filter
processPopup_gateFirst(config, width) ==
    LET rules == Get(config, "rules")
        targeting == Get(rules, "deviceTargeting")
        frequency == Get(rules, "frequency")
    IN  IF rules = Absent \/ frequency = Absent
        THEN [result |-> "threw", checks |-> <<"frequency">>]
        ELSE IF ~shouldShowPopup(idString(config), capOf(frequency))
        THEN [result |-> "skipped", checks |-> <<"frequency">>]
        ELSE IF targeting # Absent /\ ~isDeviceAllowed(targeting, width)
        THEN [result |-> "skipped", checks |-> <<"frequency", "device">>]
        ELSE IF Get(rules, "trigger") = Absent
        THEN [result |-> "threw", checks |-> <<"frequency", "device">>]
        ELSE [result |-> "armed", checks |-> <<"frequency", "device">>]

\* processPopup: how it ends and the checks it made, in order.  It throws a
\* TypeError when config.rules is undefined (config.rules.frequency), when
\* rules.frequency is undefined (the destructuring in shouldShowPopup) and when
\* rules.trigger is undefined (the destructuring in setupTrigger).
processPopup(config, width) ==
    LET rules == Get(config, "rules")
        targeting == Get(rules, "deviceTargeting")
        frequency == Get(rules, "frequency")
        device == IF targeting = Absent THEN <<>> ELSE <<"device">>
    IN  IF targeting # Absent /\ ~isDeviceAllowed(targeting, width)
        THEN [result |-> "skipped", checks |-> device]
        ELSE IF rules = Absent \/ frequency = Absent
        THEN [result |-> "threw", checks |-> Append(device, "frequency")]
        ELSE IF ~shouldShowPopup(idString(config), capOf(frequency))
        THEN [result |-> "skipped", checks |-> Append(device, "frequency")]
        ELSE IF Get(rules, "trigger") = Absent
        THEN [result |-> "threw", checks |-> Append(device, "frequency")]
        ELSE [result |-> "armed", checks |-> Append(device, "frequency")]

\* the loop of init over the configurations: each is processed in turn until
\* one throws, which ends the loop and rejects the promise of init
processAll(configs, width) ==
    LET threw == {i \in DOMAIN configs : processPopup(configs[i], width).result = "threw"}
    IN  [i \in DOMAIN configs |->
            IF \E j \in threw : j < i
            THEN [result |-> "unprocessed", checks |-> <<>>]
            ELSE processPopup(configs[i], width)]

\* config.design || config
designOf(config) == IF "design" \in DOMAIN config THEN config.design ELSE config

\* design.position || 'top'
positionOf(design) == IF "position" \in DOMAIN design THEN design.position ELSE "top"

\* isFixed of showPopup: only a top bar can be inline
isFixedOf(design) ==
    IF isString(design, "type", "top_bar") THEN ~isFalse(design, "fixed") ELSE TRUE

\* whether showPopup reserves room for the bar with a margin of the body
pushesContent(design) ==
    /\ isFixedOf(design)
    /\ isString(design, "type", "top_bar")
    /\ ~isFalse(design, "pushContent")

\* createPopupHost: an inline bar at position top goes first in the body,
\* every other host last
createPopupHost(children, host, design) ==
    IF ~isFixedOf(design) /\ positionOf(design) # "bottom"
    THEN <<host>> \o children
    ELSE Append(children, host)

\* mutation: the host is looked up by its id, which all hosts share, so the
\* first host in the body is the one removed
destroyPopup_byId(children, host) ==
    IF children = <<>> THEN children ELSE Tail(children)

\* destroyPopup: the host is removed from its parent if it has one
destroyPopup(children, host) ==
    SelectSeq(children, LAMBDA c : c # host)

\* the merged design.closable the renderer reads: closable defaults to true
closableOf(design) == ~isFalse(design, "closable")

\* the page before init ran: whether the script tag carries an API key, and the
\* margin the page gave its body
FreshPage(key, margin) ==
    /\ hasApiKey = key
    /\ initState = "idle"
    /\ fetches = 0
    /\ response = [kind |-> "none", status |-> 0]
    /\ candidates = <<>>
    /\ statuses = <<>>
    /\ triggered = {}
    /\ popups = <<>>
    /\ bodyChildren = <<>>
    /\ marginBefore = margin
    /\ bodyMargin = [top |-> margin, bottom |-> ""]

\* init up to its await: without an API key it returns, with one the fetch of
\* fetchPopupConfigs is issued
InitStart ==
    /\ initState = "idle"
    /\ initState' = IF hasApiKey THEN "fetching" ELSE "resolved"
    /\ fetches' = IF hasApiKey THEN fetches + 1 ELSE fetches
    /\ UNCHANGED <<hasApiKey, response, candidates, statuses, triggered, popups,
                   bodyChildren, marginBefore, bodyMargin>>
    /\ UNCHANGED outsideSdk

\* the fetch settles and init runs to its end: the configurations are
\* processed in order, and a TypeError of processPopup rejects the promise
FetchSettles(outcome) ==
    /\ initState = "fetching"
    /\ LET configs == fetchPopupConfigs(outcome)
           done == processAll(configs, viewportWidth)
       IN  /\ candidates' = configs
           /\ statuses' = done
           /\ initState' = IF \E i \in DOMAIN done : done[i].result = "threw"
                           THEN "rejected" ELSE "resolved"
    /\ response' = [kind |-> outcome.kind, status |-> outcome.status]
    /\ UNCHANGED <<hasApiKey, fetches, triggered, popups, bodyChildren, marginBefore,
                   bodyMargin>>
    /\ UNCHANGED outsideSdk

\* the trigger armed for candidate i fires: its callback calls showPopup, which
\* suspends at its first await.  The trigger scheduler itself is the subject of
\* SpecTrig; here an armed trigger fires at most once.
OnTrigger(i) ==
    /\ i \in DOMAIN statuses
    /\ statuses[i].result = "armed"
    /\ i \notin triggered
    /\ triggered' = triggered \cup {i}
    /\ UNCHANGED <<hasApiKey, initState, fetches, response, candidates, statuses,
                   popups, bodyChildren, marginBefore, bodyMargin>>
    /\ UNCHANGED outsideSdk

\* showPopup from its first await to its end, in fullscreen mode: the host is
\* created, the show is recorded, the body margin is set for a fixed bar that
\* pushes the content, and the renderer is mounted with handleClose as onClose
ShowPopupBody(config, cand) ==
    LET design == designOf(config)
        host == Len(popups) + 1
        side == IF positionOf(design) = "top" THEN "top" ELSE "bottom"
        frequency == Get(Get(config, "rules"), "frequency")
        records == "id" \in DOMAIN config /\ frequency # Absent
        r == IF records THEN recordPopupShown(config.id, capOf(frequency))
             ELSE [session |-> sessionStorage, local |-> localStorage]
    IN  /\ bodyChildren' = createPopupHost(bodyChildren, host, design)
        /\ sessionStorage' = r.session
        /\ localStorage' = r.local
        /\ bodyMargin' = IF pushesContent(design)
                         THEN [bodyMargin EXCEPT ![side] = "50px"]
                         ELSE bodyMargin
        /\ popups' = Append(popups,
                [config |-> config, cand |-> cand,
                 cleanup |-> IF pushesContent(design)
                             THEN [side |-> side, originalMargin |-> bodyMargin[side]]
                             ELSE Absent,
                 clicks |-> 0, exitTimers |-> 0, onCloseCalls |-> 0,
                 destroyTimers |-> 0])
        /\ UNCHANGED <<storageMode, now, ticks, lastCall, recordedSession, recordedAt,
                       recordedForever>>
        /\ UNCHANGED <<trigVars, devVars, mergeVars>>

\* the showPopup call made by the trigger of candidate i resumes
ShowFired(i) ==
    /\ i \in triggered
    /\ \A p \in DOMAIN popups : popups[p].cand # i
    /\ ShowPopupBody(candidates[i], i)
    /\ UNCHANGED <<hasApiKey, initState, fetches, response, candidates, statuses,
                   triggered, marginBefore>>

\* the page calls ToggleupSDK.showPopup(config) itself
ShowPopup(config) ==
    /\ Len(popups) < MaxPopups
    /\ ShowPopupBody(config, 0)
    /\ UNCHANGED <<hasApiKey, initState, fetches, response, candidates, statuses,
                   triggered, marginBefore>>

\* the clicks the visitor made on the popups so far
RECURSIVE clicksMade(_)
clicksMade(shown) ==
    IF shown = <<>> THEN 0 ELSE Head(shown).clicks + clicksMade(Tail(shown))

\* the visitor clicks the close button, the overlay of a modal or a button
\* whose action is close, while the popup is in the document: each runs
\* handleClose of the renderer, which returns at once for a popup that is not
\* closable and otherwise sets a timer of 200 ms for onClose
Click(p, target) ==
    /\ p \in DOMAIN popups
    /\ \E k \in DOMAIN bodyChildren : bodyChildren[k] = p
    /\ clicksMade(popups) < MaxClicks
    /\ LET design == designOf(popups[p].config)
       IN  /\ CASE target = "closeButton" -> ~isFalse(design, "showCloseButton")
                [] target = "overlay" -> /\ isString(design, "type", "modal")
                                         /\ ~isFalse(design, "closeOnOverlayClick")
                [] target = "button" ->
                       /\ "buttons" \in DOMAIN design
                       /\ \E b \in DOMAIN design.buttons :
                              \/ "action" \notin DOMAIN design.buttons[b]
                              \/ design.buttons[b].action = "close"
           /\ popups' = [popups EXCEPT
                  ![p].clicks = @ + 1,
                  ![p].exitTimers = IF closableOf(design) THEN @ + 1 ELSE @]
    /\ UNCHANGED <<hasApiKey, initState, fetches, response, candidates, statuses,
                   triggered, bodyChildren, marginBefore, bodyMargin>>
    /\ UNCHANGED outsideSdk

\* a 200 ms timer of the renderer expires and calls onClose, the handleClose
\* of showPopup: the margin is put back and a timer of 250 ms is set for
\* destroyPopup
ExitTimer(p) ==
    /\ p \in DOMAIN popups
    /\ popups[p].exitTimers > 0
    /\ popups' = [popups EXCEPT ![p].exitTimers = @ - 1,
                                ![p].onCloseCalls = @ + 1,
                                ![p].destroyTimers = @ + 1]
    /\ bodyMargin' = IF popups[p].cleanup = Absent THEN bodyMargin
                     ELSE [bodyMargin EXCEPT ![popups[p].cleanup.side] =
                                                 popups[p].cleanup.originalMargin]
    /\ UNCHANGED <<hasApiKey, initState, fetches, response, candidates, statuses,
                   triggered, bodyChildren, marginBefore>>
    /\ UNCHANGED outsideSdk

\* a 250 ms timer of showPopup expires: destroyPopup(host)
DestroyTimer(p) ==
    /\ p \in DOMAIN popups
    /\ popups[p].destroyTimers > 0
    /\ popups' = [popups EXCEPT ![p].destroyTimers = @ - 1]
    /\ bodyChildren' = destroyPopup(bodyChildren, p)
    /\ UNCHANGED <<hasApiKey, initState, fetches, response, candidates, statuses,
                   triggered, marginBefore, bodyMargin>>
    /\ UNCHANGED outsideSdk

\* a page load: init and the popups its triggers show
NextInit ==
    \/ InitStart
    \/ \E outcome \in FetchOutcomes : FetchSettles(outcome)
    \/ \E i \in 1..MaxConfigs : OnTrigger(i)
    \/ \E i \in 1..MaxConfigs : ShowFired(i)

\* the configurations the page shows itself
ShowPool ==
    {c \in CandidatePool :
        "id" \in DOMAIN c /\ "deviceTargeting" \notin DOMAIN Get(c, "rules")}

\* popups shown and closed
NextShow ==
    \/ \E config \in ShowPool : ShowPopup(config)
    \/ \E p \in 1..MaxPopups, target \in {"closeButton", "overlay", "button"} : Click(p, target)
    \/ \E p \in 1..MaxPopups : ExitTimer(p)
    \/ \E p \in 1..MaxPopups : DestroyTimer(p)

-----------------------------------------------------------------------------
(* Defaults and branding: mergeWithDefaults *)

\* JavaScript values: strings, numbers, booleans, null, references to objects of the heap
\* and arrays of values.  An object is a function from its keys to values, and
\* a key that is missing reads as Absent (undefined).
Str(s) == [str |-> s]

Num(n) == [num |-> n]

Null == [null |-> TRUE]

Bool(b) == [bool |-> b]

Ref(a) == [ref |-> a]

Arr(items) == [arr |-> items]

\* the object literal {}
EmptyObject == [key \in {} |-> Null]

\* ToBoolean: '', 0, null and undefined are falsy
truthy(v) ==
    CASE "str" \in DOMAIN v -> v.str # ""
      [] "num" \in DOMAIN v -> v.num # 0
      [] "bool" \in DOMAIN v -> v.bool
      [] "ref" \in DOMAIN v -> TRUE
      [] "arr" \in DOMAIN v -> TRUE
      [] OTHER -> FALSE

\* typeof v === 'object' && !Array.isArray(v), for a v that is not null
isPlainObject(v) == "ref" \in DOMAIN v

\* the keys of an object in the order for...in visits them
RECURSIVE keysOf(_)
keysOf(S) ==
    IF S = {} THEN <<>>
    ELSE LET key == CHOOSE k \in S : TRUE
         IN  <<key>> \o keysOf(S \ {key})

\* a new object on the heap
Alloc(h, obj) == [heap |-> Append(h, obj), ref |-> Len(h) + 1]

\* obj[key] = v on the object at address a
SetField(h, a, key, v) == [h EXCEPT ![a] = (key :> v) @@ @]

\* the module-level objects: TOP_BAR_DEFAULTS at address 1 with its content,
\* style and animation, MODAL_DEFAULTS at address 5 with its own
TOP_BAR_DEFAULTS == 1

MODAL_DEFAULTS == 5

ModuleHeap ==
    << [type |-> Str("top_bar"), position |-> Str("top"), fixed |-> Bool(TRUE),
        pushContent |-> Bool(TRUE), showCloseButton |-> Bool(TRUE),
        closable |-> Bool(TRUE), width |-> Str("100%"), maxWidth |-> Str("none"),
        content |-> Ref(2), buttons |-> Arr(<<>>), style |-> Ref(3),
        animation |-> Ref(4)],
       [headline |-> Str(""), body |-> Str(""), image |-> Null],
       [backgroundColor |-> Str("#ffffff"), textColor |-> Str("#1a1a1a"),
        closeIconColor |-> Str("#999999"), borderRadius |-> Str("0px"),
        boxShadow |-> Str("0 2px 8px rgba(0, 0, 0, 0.08)"),
        padding |-> Str("12px 20px"),
        borderBottom |-> Str("1px solid rgba(0, 0, 0, 0.05)"),
        fontFamily |-> Null],
       [enter |-> Str("slideDown"), exit |-> Str("slideUp")],
       [type |-> Str("modal"), showCloseButton |-> Bool(TRUE),
        closable |-> Bool(TRUE), closeOnOverlayClick |-> Bool(TRUE),
        width |-> Str("420px"), maxWidth |-> Str("90vw"),
        content |-> Ref(6), buttons |-> Arr(<<>>), style |-> Ref(7),
        animation |-> Ref(8)],
       [headline |-> Str(""), body |-> Str(""), image |-> Null],
       [backgroundColor |-> Str("#ffffff"), textColor |-> Str("#1a1a1a"),
        closeIconColor |-> Str("#999999"), borderRadius |-> Str("12px"),
        boxShadow |-> Str("0 4px 20px rgba(0, 0, 0, 0.15)"),
        padding |-> Str("24px"), overlayColor |-> Str("rgba(0, 0, 0, 0.6)"),
        fontFamily |-> Null],
       [enter |-> Str("scaleIn"), exit |-> Str("scaleOut")] >>

\* getDefaults: the modal defaults for every type but 'top_bar'
getDefaults(type) ==
    IF type = Str("top_bar") THEN TOP_BAR_DEFAULTS ELSE MODAL_DEFAULTS

\* value, computed once, given to Body
Bind(value, Body(_)) == CHOOSE r \in {Body(x) : x \in {value}} : TRUE

\* target[key] || {} spread into the copy deepMerge starts from: the object
\* the value refers to, and no key for a falsy value
spreadOf(h, v) == IF isPlainObject(v) THEN h[v.ref] ELSE EmptyObject

\* deepMerge(target, source), target and source given as the objects read: a
\* shallow copy of target in which every key of source that is neither null
\* nor undefined is assigned, a plain object after merging it into
\* target[key] || {}, an array or a scalar as it is.  deepMergeKeys is the
\* loop from the first of keys on, with the copy made so far in result.
RECURSIVE deepMergeKeys(_, _, _, _, _)
RECURSIVE deepMergeKey(_, _, _, _, _)
\* mutation: every key of source is assigned as it is
deepMergeKey_shallow(h, result, target, source, keys) ==
    deepMergeKeys(h, (Head(keys) :> source[Head(keys)]) @@ result, target, source,
                  Tail(keys))

deepMergeKey(h, result, target, source, keys) ==
    LET key == Head(keys)
        v == source[key]
    IN  IF v = Null
        THEN deepMergeKeys(h, result, target, source, Tail(keys))
        ELSE IF isPlainObject(v)
        THEN Bind(deepMergeKeys(h, spreadOf(h, Get(target, key)),
                                spreadOf(h, Get(target, key)),
                                h[v.ref], keysOf(DOMAIN h[v.ref])),
                  LAMBDA inner :
                      deepMergeKeys(inner.heap, (key :> Ref(inner.ref)) @@ result,
                                    target, source, Tail(keys)))
        ELSE deepMergeKeys(h, (key :> v) @@ result, target, source, Tail(keys))

deepMergeKeys(h, result, target, source, keys) ==
    Bind(<<h, result, target, source, keys>>,
         LAMBDA s : IF s[5] = <<>> THEN Alloc(s[1], s[2])
                    ELSE deepMergeKey(s[1], s[2], s[3], s[4], s[5]))

deepMerge(h, target, source) ==
    deepMergeKeys(h, target, target, source, keysOf(DOMAIN source))

\* if (value && !obj[key]) obj[key] = value, on the object at address a
brandField(h, a, key, value) ==
    Bind(h, LAMBDA g : IF truthy(value) /\ ~truthy(Get(g[a], key))
                       THEN SetField(g, a, key, value)
                       ELSE g)

\* if (!btn.style) btn.style = {}
ensureStyle(h, btn) ==
    Bind(h, LAMBDA g : IF truthy(Get(g[btn], "style")) THEN g
                       ELSE SetField(Alloc(g, EmptyObject).heap, btn, "style",
                                     Ref(Len(g) + 1)))

\* the first button takes the primary style of the branding
brandPrimary(h, style, primaryBtn) ==
    brandField(
        brandField(
            brandField(
                brandField(h, style, "backgroundColor", Get(primaryBtn, "background")),
                style, "textColor", Get(primaryBtn, "textColor")),
            style, "borderRadius", Get(primaryBtn, "borderRadius")),
        style, "boxShadow", Get(primaryBtn, "shadow"))

\* the other buttons take the secondary style if the branding has one
brandSecondary(h, style, secondaryBtn) ==
    IF secondaryBtn = Absent THEN h
    ELSE brandField(
             brandField(
                 brandField(h, style, "backgroundColor", Get(secondaryBtn, "background")),
                 style, "textColor", Get(secondaryBtn, "textColor")),
             style, "borderRadius", Get(secondaryBtn, "borderRadius"))

\* the body of buttons.forEach in applyBranding, from the button at index on
RECURSIVE brandButtons(_, _, _, _)
brandButtons(h, buttons, index, components) ==
    IF index > Len(buttons) THEN h
    ELSE Bind(ensureStyle(h, buttons[index].ref),
              LAMBDA g :
                  brandButtons(
                      IF index = 1
                      THEN brandPrimary(g, g[buttons[index].ref].style.ref,
                                        Get(components, "buttonPrimary"))
                      ELSE brandSecondary(g, g[buttons[index].ref].style.ref,
                                          Get(components, "buttonSecondary")),
                      buttons, index + 1, components))

\* result.key || result.design?.key, Absent when both are falsy
ownOrDesign(h, result, key) ==
    IF truthy(Get(result, key)) THEN result[key]
    ELSE IF truthy(Get(result, "design")) /\ truthy(Get(h[result.design.ref], key))
    THEN h[result.design.ref][key]
    ELSE Absent

\* result.key = value if result has the key, else result.design.key = value
\* if result has a design: the first is an assignment of the value result
\* already holds
writeBack(h, result, key, value) ==
    IF truthy(Get(result, key)) THEN h
    ELSE IF truthy(Get(result, "design"))
    THEN SetField(h, result.design.ref, key, value)
    ELSE h

\* found || {}: the address of the object found, or of a new object
orNewObject(h, found) ==
    IF found = Absent THEN Alloc(h, EmptyObject) ELSE [heap |-> h, ref |-> found.ref]

\* applyBranding up to the logo: the colors, the font and the radius of the
\* branding go into the style, the button styles into the buttons, and the
\* style and the buttons are written back
brandStyle(h, result, branding) ==
    LET buttons == IF ownOrDesign(h, result, "buttons") = Absent THEN <<>>
                   ELSE ownOrDesign(h, result, "buttons").arr
        colors == Get(branding, "colors")
        components == Get(branding, "components")
    IN  Bind(orNewObject(h, ownOrDesign(h, result, "style")),
             LAMBDA style :
                 writeBack(
                     writeBack(
                         Bind(brandField(
                                  brandField(
                                      brandField(
                                          brandField(style.heap, style.ref, "backgroundColor",
                                                     Get(colors, "background")),
                                          style.ref, "textColor", Get(colors, "textPrimary")),
                                      style.ref, "fontFamily",
                                      Get(Get(Get(branding, "typography"), "fontFamilies"),
                                          "primary")),
                                  style.ref, "borderRadius",
                                  Get(Get(branding, "spacing"), "borderRadius")),
                              LAMBDA g :
                                  IF Get(components, "buttonPrimary") # Absent
                                     /\ Len(buttons) > 0
                                  THEN brandButtons(g, buttons, 1, components)
                                  ELSE g),
                         result, "style", Ref(style.ref)),
                     result, "buttons", Arr(buttons)))

\* the logo of the branding becomes the image of a content that has none,
\* and the content is written back
brandLogo(h, result, logo) ==
    IF ~truthy(logo) THEN h
    ELSE Bind(orNewObject(h, ownOrDesign(h, result, "content")),
              LAMBDA content :
                  writeBack(
                      IF truthy(Get(content.heap[content.ref], "image"))
                      THEN content.heap
                      ELSE SetField(Alloc(content.heap,
                                          [url |-> logo, position |-> Str("left"),
                                           height |-> Str("24px")]).heap,
                                    content.ref, "image", Ref(Len(content.heap) + 1)),
                      result, "content", Ref(content.ref)))

\* applyBranding(config, branding) for a branding that is not null: the style,
\* the buttons and the content that config or config.design refers to are
\* changed in place, and a shallow copy of config is returned
applyBranding(h, config, branding) ==
    Bind(brandStyle(h, h[config], branding),
         LAMBDA g : Alloc(brandLogo(g, h[config], Get(Get(branding, "images"), "logo")),
                          h[config]))

\* config.type || config.design?.type
typeOf(h, raw) ==
    IF truthy(Get(raw, "type")) THEN raw.type
    ELSE IF truthy(Get(raw, "design")) THEN Get(h[raw.design.ref], "type")
    ELSE Absent

\* mergeWithDefaults without the branding: the defaults of the type are merged
\* with config.design if config has one and with config if not
mergeDefaults(h, raw) ==
    IF truthy(Get(raw, "design"))
    THEN Bind(deepMerge(h, h[getDefaults(typeOf(h, raw))], h[raw.design.ref]),
              LAMBDA design : Alloc(design.heap, ("design" :> Ref(design.ref)) @@ raw))
    ELSE deepMerge(h, h[getDefaults(typeOf(h, raw))], raw)

\* mergeWithDefaults(config, branding): the merge with the defaults, then the
\* branding if there is one
mergeWithDefaults(h, config, branding) ==
    Bind(mergeDefaults(h, h[config]),
         LAMBDA result : IF branding = Absent THEN result
                         ELSE applyBranding(result.heap, result.ref, branding))

\* the configurations a page passes to the renderer, as the objects JSON.parse
\* or an object literal creates: the first object is the configuration, and a
\* reference counts from the address before it
RawConfigs ==
    { <<[type |-> Str("modal"), style |-> Ref(2), content |-> Ref(3),
         buttons |-> Arr(<<Ref(5)>>)],
        [backgroundColor |-> Str("#000"), textColor |-> Str("#eee"),
         fontFamily |-> Str("Georgia"), borderRadius |-> Str("2px")],
        [headline |-> Str("Hi"), image |-> Ref(4)],
        [url |-> Str("a.png")],
        [text |-> Str("OK"), style |-> Ref(6)],
        [backgroundColor |-> Str("#0a0")]>>,
      <<[type |-> Str("top_bar")]>>,
      <<[design |-> Ref(2)],
        [type |-> Str("modal"), headline |-> Str("Hi")]>>,
      <<[type |-> Str("modal"), style |-> Ref(2)],
        [borderRadius |-> Num(0), backgroundColor |-> Str("#000")]>>,
      <<[type |-> Str("modal"), buttons |-> Arr(<<Ref(2), Ref(3)>>)],
        [text |-> Str("OK")],
        [text |-> Str("No"), action |-> Str("close")]>>,
      <<[type |-> Str("top_bar"), content |-> Ref(2)],
        [headline |-> Ref(3), body |-> Str("b")],
        [text |-> Str("Hi"), style |-> Ref(4)],
        [color |-> Str("red")]>>,
      <<[design |-> Ref(2)],
        [type |-> Str("top_bar"), content |-> Ref(3), style |-> Ref(4),
         buttons |-> Arr(<<Ref(5)>>)],
        [headline |-> Str("Hi")],
        [backgroundColor |-> Str("#000")],
        [text |-> Str("Go"), style |-> Ref(6)],
        [textColor |-> Str("#fff")]>>,
      <<[id |-> Str("a"), type |-> Str("carousel")]>>,
      <<[type |-> Str("modal"), maxWidth |-> Null, content |-> Ref(2),
         buttons |-> Arr(<<Ref(3), Ref(4), Ref(5), Ref(6)>>)],
        [headline |-> Str("Hi"),
         features |-> Arr(<<Ref(7), Ref(8), Ref(9), Ref(10), Ref(11), Ref(12)>>)],
        [text |-> Str("b1")], [text |-> Str("b2")], [text |-> Str("b3")],
        [text |-> Str("b4")],
        [text |-> Str("f1")], [text |-> Str("f2")], [text |-> Str("f3")],
        [text |-> Str("f4")], [text |-> Str("f5")], [text |-> Str("f6")]>> }

\* the brandings a page sets; Absent is no branding
Brandings ==
    { Absent,
      [colors |-> [background |-> Str("#fff"), textPrimary |-> Str("#111")],
       typography |-> [fontFamilies |-> [primary |-> Str("Inter")]],
       spacing |-> [borderRadius |-> Str("8px")]],
      [components |-> [buttonPrimary |-> [background |-> Str("#f00"),
                                          textColor |-> Str("#fff"),
                                          borderRadius |-> Str("6px"),
                                          shadow |-> Str("none")],
                       buttonSecondary |-> [background |-> Str("#eee")]]],
      [images |-> [logo |-> Str("logo.png")]] }

\* a value of a parsed configuration placed after base objects of the heap
relocate(v, base) ==
    IF "ref" \in DOMAIN v THEN Ref(v.ref + base)
    ELSE IF "arr" \in DOMAIN v
    THEN Arr([i \in DOMAIN v.arr |-> Ref(v.arr[i].ref + base)])
    ELSE v

\* the objects of a configuration, placed at the end of the heap
parsed(h, objects) ==
    h \o [i \in DOMAIN objects |->
             [key \in DOMAIN objects[i] |-> relocate(objects[i][key], Len(h))]]

\* no configuration was merged on a heap of these objects
Unmerged(objects) ==
    /\ heap = objects
    /\ heapBefore = <<>>
    /\ rawConfig = 0
    /\ rawSize = 0
    /\ mergedConfig = 0
    /\ usedBranding = Absent
    /\ merges = 0

\* the module of the defaults as loaded
FreshModule == Unmerged(ModuleHeap)

\* a page that did not load the module of the defaults
NoDefaults == Unmerged(<<>>)

\* mergeWithDefaults(config, branding) on the configuration at address config
Merge(h, config, size, branding) ==
    /\ merges' = merges + 1
    /\ heapBefore' = h
    /\ rawConfig' = config
    /\ rawSize' = size
    /\ usedBranding' = branding
    /\ \E m \in {mergeWithDefaults(h, config, branding)} :
           /\ heap' = m.heap
           /\ mergedConfig' = m.ref
    /\ UNCHANGED outsideMerge

\* a popup is rendered from a configuration that was just created
RenderNew(objects, branding) ==
    /\ merges < MaxMerges
    /\ Merge(parsed(heap, objects), Len(heap) + 1, Len(objects), branding)

\* the page shows the configuration object it showed last once more
RenderSame(branding) ==
    /\ merges < MaxMerges
    /\ rawConfig # 0
    /\ Merge(heap, rawConfig, rawSize, branding)

NextMerge ==
    \/ \E objects \in RawConfigs, branding \in Brandings : RenderNew(objects, branding)
    \/ \E branding \in Brandings : RenderSame(branding)

\* the content the renderer reads from the merged configuration
normalizeTextItem(h, item) ==
    IF "str" \in DOMAIN item THEN [text |-> item, style |-> EmptyObject]
    ELSE IF truthy(item) THEN h[item.ref]
    ELSE [text |-> Str(""), style |-> EmptyObject]

rawContent(h, design) ==
    IF truthy(Get(design, "content")) THEN h[design.content.ref]
    ELSE [key \in {"headline", "body", "image"} \cap DOMAIN design |-> design[key]]

\* config.design || config of the configuration at an address
designAt(h, config) ==
    IF truthy(Get(h[config], "design")) THEN h[h[config].design.ref] ELSE h[config]

\* list.slice(0, n)
slice(list, n) == SubSeq(list, 1, IF Len(list) < n THEN Len(list) ELSE n)

\* the texts of design.buttons, or of the one button made of design.btnText
buttonTexts(h, design) ==
    IF truthy(Get(design, "buttons"))
    THEN [i \in DOMAIN design.buttons.arr |-> Get(h[design.buttons.arr[i].ref], "text")]
    ELSE IF truthy(Get(design, "btnText")) THEN <<design.btnText>>
    ELSE <<>>

\* the texts of rawContent.features || []
featureTexts(h, design) ==
    IF truthy(Get(rawContent(h, design), "features"))
    THEN [i \in DOMAIN rawContent(h, design).features.arr |->
             Get(h[rawContent(h, design).features.arr[i].ref], "text")]
    ELSE <<>>

\* the buttons either branch of the renderer draws
renderedButtons(h, config) == slice(buttonTexts(h, designAt(h, config)), 3)

\* the list items the renderer draws: the modal branch maps content.features,
\* the top bar draws none
renderedFeatures(h, config) ==
    IF Get(designAt(h, config), "type") = Str("top_bar") THEN <<>>
    ELSE featureTexts(h, designAt(h, config))

\* renderPopup: the top bar for type 'top_bar', the modal container for
\* every other type
rendererBranch(h, config) ==
    IF Get(designAt(h, config), "type") = Str("top_bar") THEN "top_bar" ELSE "modal"

\* the live renderer puts the overlay under the popup: isModal && ...
hasOverlay(h, config) == Get(designAt(h, config), "type") = Str("modal")

-----------------------------------------------------------------------------
(* The entry point sdk/index.js and candidates without an id *)

\* candidates the API returns without an id, one per cap
IdlessCaps == {"always", "once_per_session", "once_per_user_24h", "once_lifetime"}

IdlessPool ==
    {[type |-> "modal",
      rules |-> [frequency |-> [cap |-> cap],
                 trigger |-> [type |-> "immediate", value |-> 0]]] : cap \in IdlessCaps}

\* processPopup of either entry point asks the gate about a candidate
\* without an id: shouldShowPopup(undefined, frequency)
GateIdless(config) ==
    /\ lastCall' = [op |-> "shouldShowPopup",
                    capped |-> capOf(config.rules.frequency) \in CappedCaps,
                    ret |-> IF shouldShowPopup(idString(config),
                                               capOf(config.rules.frequency))
                            THEN "true" ELSE "false"]
    /\ UNCHANGED <<storageMode, now, ticks, sessionStorage, localStorage,
                   recordedSession, recordedAt, recordedForever>>
    /\ UNCHANGED outsideFreq

\* showPopup of sdk/index.js: the host is appended to the body, the show is
\* recorded whatever config.id is, and a legacy top bar that pushes the
\* content sets the margin of the body
EntryShowPopup(config) ==
    /\ Len(popups) < MaxPopups
    /\ LET design == Get(config, "design")
           pushes == /\ isString(design, "type", "top_bar")
                     /\ ~isFalse(design, "pushContent")
           side == IF isString(design, "position", "bottom") THEN "bottom" ELSE "top"
           r == recordPopupShown(idString(config), capOf(config.rules.frequency))
       IN  /\ bodyChildren' = Append(bodyChildren, Len(popups) + 1)
           /\ sessionStorage' = r.session
           /\ localStorage' = r.local
           /\ bodyMargin' = IF pushes THEN [bodyMargin EXCEPT ![side] = "50px"]
                            ELSE bodyMargin
           /\ popups' = Append(popups,
                   [config |-> config, cand |-> 0,
                    cleanup |-> IF pushes
                                THEN [side |-> side, originalMargin |-> bodyMargin[side]]
                                ELSE Absent,
                    clicks |-> 0, exitTimers |-> 0, onCloseCalls |-> 0,
                    destroyTimers |-> 0])
    /\ UNCHANGED <<storageMode, now, ticks, lastCall, recordedSession, recordedAt,
                   recordedForever>>
    /\ UNCHANGED <<hasApiKey, initState, fetches, response, candidates, statuses,
                   triggered, marginBefore>>
    /\ UNCHANGED <<trigVars, devVars, mergeVars>>

\* candidates without an id, gated and shown by either entry point
NextIdless ==
    \/ \E config \in IdlessPool : GateIdless(config)
    \/ \E config \in IdlessPool : ShowPopup(config)
    \/ \E config \in IdlessPool : EntryShowPopup(config)
    \/ NewSession

-----------------------------------------------------------------------------
(* Configurations written by the modal form *)

\* the JSON the form puts out for its two toggles "Boton cerrar (X)" and
\* "Cerrar al click overlay"
FormOutputs ==
    [id : {<<"a">>}, type : {"modal"}, size : {"medium"},
     showCloseButton : BOOLEAN, closeOnOverlay : BOOLEAN]

\* modals of the form shown, clicked and closed
NextForm ==
    \/ \E config \in FormOutputs : ShowPopup(config)
    \/ \E p \in 1..MaxPopups, target \in {"closeButton", "overlay", "button"} :
           Click(p, target)
    \/ \E p \in 1..MaxPopups : ExitTimer(p)
    \/ \E p \in 1..MaxPopups : DestroyTimer(p)

-----------------------------------------------------------------------------
(* showPopup with options, and triggers the page cancels *)

\* candidates that init arms on a desktop: an id, a cap, a trigger, no device rule
ArmedPool ==
    {c \in CandidatePool :
        /\ "id" \in DOMAIN c
        /\ Get(Get(c, "rules"), "frequency") # Absent
        /\ Get(Get(c, "rules"), "trigger") # Absent
        /\ Get(Get(c, "rules"), "deviceTargeting") = Absent}

\* responses with a list of such candidates
ArmedOutcomes ==
    [kind : {"resolves"}, status : {200}, json : ListsUpTo(ArmedPool, MaxConfigs),
     parses : {TRUE}]

\* options.target: none, an element, a text node
Targets == {Absent, [nodeType |-> 1], [nodeType |-> 3]}

\* mutation: no target is taken for an element
isEmbedded_never(target) == FALSE

\* target && target.nodeType === 1
isEmbedded(target) == target # Absent /\ target.nodeType = 1

\* the page calls a cleanup of window.__toggleupCleanups before the trigger of
\* candidate i fired: the trigger is cancelled
CancelTrigger(i) ==
    /\ i \in DOMAIN statuses
    /\ statuses[i].result = "armed"
    /\ i \notin triggered
    /\ statuses' = [statuses EXCEPT ![i].result = "cancelled"]
    /\ UNCHANGED <<hasApiKey, initState, fetches, response, candidates, triggered,
                   popups, bodyChildren, marginBefore, bodyMargin>>
    /\ UNCHANGED outsideSdk

\* showPopup(config, {target}): with an element as target the target is
\* emptied, a wrapper is put into it and the popup is rendered there, and the
\* function returns; otherwise it goes on as in fullscreen mode
ShowPopupIn(config, target) ==
    /\ Len(popups) < MaxPopups
    /\ IF isEmbedded(target)
       THEN /\ popups' = Append(
                   [p \in DOMAIN popups |->
                       IF "inTarget" \in DOMAIN popups[p]
                       THEN [popups[p] EXCEPT !.inTarget = FALSE] ELSE popups[p]],
                   [config |-> config, cand |-> 0, cleanup |-> Absent,
                    clicks |-> 0, exitTimers |-> 0, onCloseCalls |-> 0,
                    destroyTimers |-> 0, inTarget |-> TRUE])
            /\ UNCHANGED <<bodyChildren, bodyMargin>>
            /\ UNCHANGED <<freqVars, trigVars, devVars, mergeVars>>
       ELSE ShowPopupBody(config, 0)
    /\ UNCHANGED <<hasApiKey, initState, fetches, response, candidates, statuses,
                   triggered, marginBefore>>

\* init on a page that cancels triggers and shows popups itself
NextEmbed ==
    \/ InitStart
    \/ \E outcome \in ArmedOutcomes : FetchSettles(outcome)
    \/ \E i \in 1..MaxConfigs : OnTrigger(i)
    \/ \E i \in 1..MaxConfigs : CancelTrigger(i)
    \/ \E i \in 1..MaxConfigs : ShowFired(i)
    \/ \E config \in ArmedPool, target \in Targets : ShowPopupIn(config, target)

-----------------------------------------------------------------------------
(* Specifications *)

\* the storage gate alone, on a page without triggers
InitFreq ==
    /\ \E mode \in StorageModes : FreshGate(mode)
    /\ NoTriggers([ontouchstart |-> FALSE, maxTouchPoints |-> 0], innerHeight)
    /\ Viewport(1280)
    /\ FreshPage(TRUE, "")
    /\ NoDefaults

SpecFreq == InitFreq /\ [][NextFreq]_vars

\* the triggers alone, the storage gate untouched
InitTrig ==
    /\ FreshGate("ok")
    /\ \E env \in TouchEnvs, h \in DocHeights : NoTriggers(env, h)
    /\ Viewport(1280)
    /\ FreshPage(TRUE, "")
    /\ NoDefaults

SpecTrig == InitTrig /\ [][NextTrig]_vars

\* the device filter alone
InitDev ==
    /\ FreshGate("ok")
    /\ NoTriggers([ontouchstart |-> FALSE, maxTouchPoints |-> 0], innerHeight)
    /\ \E width \in Widths : Viewport(width)
    /\ FreshPage(TRUE, "")
    /\ NoDefaults

SpecDev == InitDev /\ [][NextDev]_vars

\* a visitor for whom popup "a" was recorded earlier in this session
ReturningGate ==
    /\ storageMode = "ok"
    /\ now = 0
    /\ ticks = 0
    /\ sessionStorage = setItem(HostStore, getSessionKey(<<"a">>), JsTrue).store
    /\ localStorage = HostStore
    /\ lastCall = NoCall
    /\ recordedSession = {<<"a">>}
    /\ recordedAt = [id \in PopupIds |-> {}]
    /\ recordedForever = {}

\* a page load, on a phone or on a desktop, of a new or a returning visitor,
\* with or without an API key on the script tag
InitInit ==
    /\ FreshGate("ok") \/ ReturningGate
    /\ NoTriggers([ontouchstart |-> FALSE, maxTouchPoints |-> 0], innerHeight)
    /\ \E width \in {320, 1280} : Viewport(width)
    /\ \E key \in BOOLEAN : FreshPage(key, "")
    /\ FreshModule

SpecInit == InitInit /\ [][NextInit]_vars

\* popups the page shows itself, on a body with or without a margin of its own
InitShow ==
    /\ FreshGate("ok")
    /\ NoTriggers([ontouchstart |-> FALSE, maxTouchPoints |-> 0], innerHeight)
    /\ Viewport(1280)
    /\ \E margin \in {"", "8px"} : FreshPage(TRUE, margin)
    /\ FreshModule

SpecShow == InitShow /\ [][NextShow]_vars

\* a timer that was set expires
SpecShowFair ==
    /\ SpecShow
    /\ \A p \in 1..MaxPopups : WF_vars(ExitTimer(p)) /\ WF_vars(DestroyTimer(p))

\* configurations merged with the defaults, on a page that shows no popup
InitMerge ==
    /\ FreshGate("ok")
    /\ NoTriggers([ontouchstart |-> FALSE, maxTouchPoints |-> 0], innerHeight)
    /\ Viewport(1280)
    /\ FreshPage(TRUE, "")
    /\ FreshModule

SpecMerge == InitMerge /\ [][NextMerge]_vars

\* a browser in which only candidates without an id are shown
InitIdless ==
    /\ FreshGate("ok")
    /\ NoTriggers([ontouchstart |-> FALSE, maxTouchPoints |-> 0], innerHeight)
    /\ Viewport(1280)
    /\ FreshPage(TRUE, "")
    /\ FreshModule

SpecIdless == InitIdless /\ [][NextIdless]_vars

\* a page that shows modals made with the form
InitForm ==
    /\ FreshGate("ok")
    /\ NoTriggers([ontouchstart |-> FALSE, maxTouchPoints |-> 0], innerHeight)
    /\ Viewport(1280)
    /\ FreshPage(TRUE, "")
    /\ FreshModule

SpecForm == InitForm /\ [][NextForm]_vars

\* a desktop page with the script tag and working storage
InitEmbed ==
    /\ FreshGate("ok")
    /\ NoTriggers([ontouchstart |-> FALSE, maxTouchPoints |-> 0], innerHeight)
    /\ Viewport(1280)
    /\ FreshPage(TRUE, "")
    /\ FreshModule

SpecEmbed == InitEmbed /\ [][NextEmbed]_vars

-----------------------------------------------------------------------------
(* Storage gate: properties *)

\* the window the policy table gives each time-based cap, in milliseconds
CapWindow(cap) == IF cap \in {"once_per_day", "once_per_user_24h"}
                  THEN 24 * 3600000
                  ELSE 7 * 24 * 3600000

\* C1: with storage available, for every popup id and every cap other than
\* always: in the state right after recordPopupShown(id, {cap}), and as long
\* as the clock has not advanced (time-based caps), no new session has begun
\* (session cap) and no bulk clear was made, shouldShowPopup(id, {cap}) is false.
C1_RecordThenSuppressed ==
    storageMode = "ok" =>
        \A id \in PopupIds :
            /\ id \in recordedSession => ~shouldShowPopup(id, "once_per_session")
            /\ now \in recordedAt[id] =>
                   \A cap \in TimeCaps : ~shouldShowPopup(id, cap)
            /\ id \in recordedForever =>
                   \A cap \in LifetimeCaps : ~shouldShowPopup(id, cap)

\* a recording under a capped cap has just been made with working storage;
\* one popup was recorded under all three kinds of cap and is suppressed
C1_Witness ==
    /\ storageMode = "ok"
    /\ lastCall = [op |-> "recordPopupShown", capped |-> TRUE, ret |-> "undefined"]
    /\ \E id \in PopupIds :
          /\ id \in recordedSession
          /\ recordedAt[id] = {now}
          /\ id \in recordedForever
          /\ now > 0
          /\ \A cap \in CappedCaps : ~shouldShowPopup(id, cap)

\* what C2 says of the current state: every popup whose last timestamp
\* recording was made at t is suppressed under each time-based cap before
\* t + window and shown again past t + window
TimeCapFollowsWindow ==
    \A id \in PopupIds, cap \in TimeCaps :
        \A t \in recordedAt[id] :
            /\ now < t + CapWindow(cap) => ~shouldShowPopup(id, cap)
            /\ now > t + CapWindow(cap) => shouldShowPopup(id, cap)

\* C2 as stated: after recordPopupShown(id, {cap}) at time t with a time-based
\* cap and no further recording, shouldShowPopup(id, {cap}) is false at every
\* time before t + W and true at every time past t + W (W = 24 h for
\* once_per_day and once_per_user_24h, 7 days for once_per_week).
C2_Original == TimeCapFollowsWindow

\* C2 amended: the same, provided storage is available (reads and writes
\* succeed) and no bulk clear was made since the recording.
C2_TimeCapWindow == storageMode = "ok" => TimeCapFollowsWindow

\* the week window of a recording has elapsed and shouldShowPopup has just returned true
C2_Witness ==
    /\ storageMode = "ok"
    /\ lastCall = [op |-> "shouldShowPopup", capped |-> TRUE, ret |-> "true"]
    /\ recordedSession = PopupIds
    /\ recordedForever = PopupIds
    /\ \A id \in PopupIds : \E t \in recordedAt[id] :
          /\ now > t + CapWindow("once_per_week")
          /\ shouldShowPopup(id, "once_per_week")

\* C3: once recordPopupShown ran for an id under once_ever or once_lifetime
\* with storage available, shouldShowPopup of that id under these caps is false
\* in every later state reached by clock advances, new sessions and
\* shouldShowPopup / recordPopupShown calls of any id and cap (no bulk clear).
C3_OnceEverForever ==
    storageMode = "ok" =>
        \A id \in recordedForever :
            /\ ~shouldShowPopup(id, "once_ever")
            /\ ~shouldShowPopup(id, "once_lifetime")

\* more than a week and a new session after a lifetime recording of one popup,
\* with the other popup recorded under other caps only, shouldShowPopup returned false
C3_Witness ==
    /\ storageMode = "ok"
    /\ now > oneWeek
    /\ sessionStorage = HostStore
    /\ lastCall = [op |-> "shouldShowPopup", capped |-> TRUE, ret |-> "false"]
    /\ \E id \in PopupIds :
          /\ recordedForever = {id}
          /\ \A cap \in CappedCaps \ LifetimeCaps : shouldShowPopup(id, cap)
          /\ \E other \in PopupIds \ {id} : recordedAt[other] # {}

UncappedCaps == {"always"} \cup UnknownCaps

\* C4: for cap always and for every unrecognized cap, shouldShowPopup is true
\* in every reachable state and every call of it returns true, and
\* recordPopupShown leaves sessionStorage and localStorage unchanged.
C4_AlwaysAndUnknown ==
    /\ [](\A id \in PopupIds, cap \in UncappedCaps : shouldShowPopup(id, cap))
    /\ []((lastCall.op = "shouldShowPopup" /\ ~lastCall.capped) => lastCall.ret = "true")
    /\ [][(lastCall'.op = "recordPopupShown" /\ ~lastCall'.capped)
            => UNCHANGED <<sessionStorage, localStorage>>]_vars

\* every capped cap suppresses every popup, and shouldShowPopup called with
\* cap always or an unrecognized cap has just returned true
C4_Witness ==
    /\ storageMode = "ok"
    /\ lastCall = [op |-> "shouldShowPopup", capped |-> FALSE, ret |-> "true"]
    /\ \A id \in PopupIds, cap \in CappedCaps : ~shouldShowPopup(id, cap)

\* C5: when every access to sessionStorage and localStorage throws,
\* shouldShowPopup returns true for every id and cap, and recordPopupShown
\* returns normally for every id and cap.
C5_FailOpen ==
    storageMode = "throws" =>
        /\ \A id \in PopupIds, cap \in Caps :
              /\ shouldShowPopup(id, cap)
              /\ ~recordPopupShown(id, cap).threw
        /\ lastCall.ret \notin {"false", "exception"}

\* with throwing storage a recording under a capped cap was attempted and returned
C5_Witness ==
    /\ storageMode = "throws"
    /\ lastCall = [op |-> "recordPopupShown", capped |-> TRUE, ret |-> "undefined"]
    /\ \A id \in PopupIds : recordedAt[id] # {}
    /\ sessionStorage = HostStore
    /\ localStorage = HostStore

-----------------------------------------------------------------------------
(* Triggers: properties *)

\* the triggers of the given type that were set up
TriggersOfType(type) == {t \in DOMAIN triggers : triggers[t].type = type}

\* C6: whatever its type, a trigger has its onTrigger invoked at most once, over
\* every sequence of frames, timer expiries, scroll and mouseleave events.
C6_AtMostOnce == \A t \in DOMAIN calls : calls[t] <= 1

\* a scroll trigger that fired at arming sees a later scroll event past its threshold
C6_Witness ==
    \E t \in TriggersOfType("scroll_percent") :
        /\ triggers[t].value = 50
        /\ firedOn[t] = "setup"
        /\ calls[t] = 1
        /\ lastEvent.op = "scroll"
        /\ scrollHeight - innerHeight = 1000
        /\ scrollY >= 500

\* C7: once its cleanup was called while it had not fired, no later step invokes
\* the onTrigger of a trigger; and a cleanup called again, or called after the
\* trigger fired, changes nothing of what the triggers and the browser hold.
C7_CleanupCancels ==
    /\ [][\A t \in cancelled : calls'[t] = 0]_vars
    /\ [][(/\ lastEvent'.op = "cleanup"
           /\ lastEvent'.arg \in DOMAIN calls
           /\ (lastEvent'.arg \in cancelled \/ calls[lastEvent'.arg] > 0))
          => UNCHANGED <<triggerState, calls, firedOn>>]_vars

\* an exit-intent trigger cancelled while armed sees the pointer leave at the top
C7_Witness ==
    \E t \in TriggersOfType("exit_intent") :
        /\ ~touchEnv.ontouchstart
        /\ touchEnv.maxTouchPoints = 0
        /\ t \in cancelled
        /\ calls[t] = 0
        /\ lastEvent.op = "mouseleave"
        /\ lastEvent.arg <= 0

\* y / d * 100 >= v in the arithmetic of JavaScript: 0 / 0 is NaN, which is not
\* >= anything, y / 0 is Infinity for y > 0, and a negative d turns the sign
QuotientPercentAtLeast(y, d, v) ==
    IF d = 0 THEN y > 0
    ELSE IF d > 0 THEN y * 100 >= v * d
    ELSE y * 100 <= v * d

\* the same, the percentage being 0 when d <= 0
GuardedPercentAtLeast(y, d, v) ==
    IF d <= 0 THEN 0 >= v ELSE y * 100 >= v * d

\* a step that arms a scroll trigger fires it exactly when the test holds at
\* arming; a scroll event fires the scroll triggers that have neither fired nor
\* been cancelled exactly when the test holds at the new position, and no other
QuotientScrollStep ==
    /\ (lastEvent'.op = "setup" /\ triggers'[Len(triggers')].type = "scroll_percent")
       => calls'[Len(calls')] =
              IF QuotientPercentAtLeast(scrollY, scrollHeight - innerHeight,
                                        triggers'[Len(triggers')].value)
              THEN 1 ELSE 0
    /\ lastEvent'.op = "scroll"
       => \A t \in TriggersOfType("scroll_percent") :
              t \notin cancelled =>
                  calls'[t] =
                      IF calls[t] = 0
                         /\ QuotientPercentAtLeast(scrollY', scrollHeight' - innerHeight,
                                                   triggers[t].value)
                      THEN 1 ELSE calls[t]

GuardedScrollStep ==
    /\ (lastEvent'.op = "setup" /\ triggers'[Len(triggers')].type = "scroll_percent")
       => calls'[Len(calls')] =
              IF GuardedPercentAtLeast(scrollY, scrollHeight - innerHeight,
                                       triggers'[Len(triggers')].value)
              THEN 1 ELSE 0
    /\ lastEvent'.op = "scroll"
       => \A t \in TriggersOfType("scroll_percent") :
              t \notin cancelled =>
                  calls'[t] =
                      IF calls[t] = 0
                         /\ GuardedPercentAtLeast(scrollY', scrollHeight' - innerHeight,
                                                  triggers[t].value)
                      THEN 1 ELSE calls[t]

\* C8 as stated: a scroll trigger fires at the first check, at arming or at a
\* scroll event, at which scrollY / (scrollHeight - innerHeight) * 100 >= v,
\* at no earlier check and not again.
C8_Original == [][QuotientScrollStep]_vars

\* C8: a scroll trigger fires at the first check, at arming or at a scroll
\* event, at which the percentage is >= v, at no earlier check and not again,
\* the percentage being scrollY / (scrollHeight - innerHeight) * 100 when
\* scrollHeight - innerHeight > 0 and 0 otherwise.
C8_ScrollThreshold == [][GuardedScrollStep]_vars

\* v = 50 on a document that scrolls by 1000: fired by the scroll event to 500
C8_Witness ==
    \E t \in TriggersOfType("scroll_percent") :
        /\ triggers[t].value = 50
        /\ scrollHeight - innerHeight = 1000
        /\ scrollY = 500
        /\ lastEvent.op = "scroll"
        /\ firedOn[t] = "scroll"
        /\ calls[t] = 1
        /\ t \notin cancelled

\* 'ontouchstart' in window || navigator.maxTouchPoints > 0, as the claim words it
TouchCapable == touchEnv.ontouchstart \/ touchEnv.maxTouchPoints > 0

\* C9: in a touch-capable environment an exit-intent trigger has no mouseleave
\* listener and is never fired; elsewhere a leave event fires the exit-intent
\* triggers that have neither fired nor been cancelled when clientY <= 0, and
\* fires none when clientY > 0.
C9_ExitIntent ==
    /\ [](TouchCapable =>
            \A t \in TriggersOfType("exit_intent") :
                t \notin leaveListeners /\ calls[t] = 0)
    /\ [][(~TouchCapable /\ lastEvent'.op = "mouseleave")
          => \A t \in TriggersOfType("exit_intent") :
                 t \notin cancelled =>
                     calls'[t] = IF calls[t] = 0 /\ lastEvent'.arg <= 0
                                 THEN 1 ELSE calls[t]]_vars

\* maxTouchPoints alone makes the environment touch-capable, and the pointer
\* leaves at clientY = 0 while the trigger was not cancelled
C9_Witness ==
    \E t \in TriggersOfType("exit_intent") :
        /\ ~touchEnv.ontouchstart
        /\ touchEnv.maxTouchPoints > 0
        /\ t \notin cancelled
        /\ calls[t] = 0
        /\ lastEvent.op = "mouseleave"
        /\ lastEvent.arg = 0

\* the triggers the claim calls immediate or of an unrecognized type
FrameTriggers ==
    {t \in DOMAIN triggers :
        triggers[t].type \notin {"time_delay", "scroll_percent", "exit_intent"}}

\* C10: an immediate trigger or one of an unrecognized type is not fired by the
\* step that sets it up and is fired by a frame only; the next frame fires it
\* unless its cleanup was called before, and then nothing fires it.
C10_NextFrame ==
    /\ [](\A t \in FrameTriggers : firedOn[t] \in {"", "frame"})
    /\ [][lastEvent'.op = "frame"
          => \A t \in FrameTriggers :
                 calls'[t] = IF calls[t] = 0 /\ t \notin cancelled THEN 1 ELSE calls[t]]_vars
    /\ [][\A t \in FrameTriggers \cap cancelled : calls'[t] = 0]_vars

\* a trigger of an unrecognized type was fired by the frame after its arming
C10_Witness ==
    \E t \in FrameTriggers :
        /\ triggers[t].type \in UnknownTriggerTypes
        /\ lastEvent.op = "frame"
        /\ firedOn[t] = "frame"
        /\ calls[t] = 1
        /\ t \notin cancelled

-----------------------------------------------------------------------------
(* Device targeting: properties *)

\* the bucket the claim gives a width
Bucket(width) ==
    IF width <= 480 THEN "mobile" ELSE IF width <= 768 THEN "tablet" ELSE "desktop"

\* C11: isDeviceAllowed returns true for absent rules, and otherwise false exactly
\* when the key of the current bucket is explicitly false.
C11_CurrentBucketOnly ==
    lastCheck.ret # "none" =>
        (lastCheck.ret = "false" <=>
            (/\ lastCheck.rules # Absent
             /\ Bucket(viewportWidth) \in DOMAIN lastCheck.rules
             /\ lastCheck.rules[Bucket(viewportWidth)] = FALSE))

\* {mobile: false} is allowed on a desktop viewport
C11_Witness ==
    /\ lastCheck.rules = [k \in {"mobile"} |-> FALSE]
    /\ viewportWidth > 768
    /\ lastCheck.ret = "true"

-----------------------------------------------------------------------------
(* The orchestrator: properties *)

\* the device targeting of the configuration names the current bucket as false
DeviceDenies(config) ==
    /\ "rules" \in DOMAIN config
    /\ "deviceTargeting" \in DOMAIN config.rules
    /\ Bucket(viewportWidth) \in DOMAIN config.rules.deviceTargeting
    /\ config.rules.deviceTargeting[Bucket(viewportWidth)] = FALSE

\* the frequency gate returns false for the configuration
GateRefuses(config) ==
    /\ "rules" \in DOMAIN config
    /\ "frequency" \in DOMAIN config.rules
    /\ "cap" \in DOMAIN config.rules.frequency
    /\ ~shouldShowPopup(idString(config), config.rules.frequency.cap)

\* the popups shown for candidate i
PopupsOf(i) == {p \in DOMAIN popups : popups[p].cand = i}

\* C12: a candidate the device filter denies, or the frequency gate refuses,
\* gets no trigger and no host; the device filter comes before the gate, a
\* trigger is armed only after both passed, and storage is written only when a
\* candidate that got a trigger is shown.
C12_DroppedCandidates ==
    /\ [](\A i \in DOMAIN statuses :
            /\ DeviceDenies(candidates[i]) =>
                   /\ statuses[i].result # "armed"
                   /\ \A k \in DOMAIN statuses[i].checks : statuses[i].checks[k] # "frequency"
            /\ statuses[i].result # "armed" => i \notin triggered /\ PopupsOf(i) = {}
            /\ statuses[i].result = "armed" =>
                   /\ ~DeviceDenies(candidates[i])
                   /\ statuses[i].checks \in {<<"frequency">>, <<"device", "frequency">>})
    /\ [][initState = "fetching" =>
             \A i \in DOMAIN statuses' :
                 GateRefuses(candidates'[i]) => statuses'[i].result # "armed"]_vars
    /\ [][(sessionStorage' # sessionStorage \/ localStorage' # localStorage) =>
             /\ Len(popups') = Len(popups) + 1
             /\ popups'[Len(popups')].cand \in DOMAIN statuses
             /\ statuses[popups'[Len(popups')].cand].result = "armed"]_vars

\* one candidate was dropped, by the device filter or by the gate of a returning
\* visitor, and the other one was shown
C12_Witness ==
    /\ initState = "resolved"
    /\ \E i \in DOMAIN statuses :
           /\ statuses[i].result = "skipped"
           /\ \/ DeviceDenies(candidates[i]) /\ statuses[i].checks = <<"device">>
              \/ GateRefuses(candidates[i]) /\ statuses[i].checks = <<"frequency">>
    /\ \E i \in DOMAIN statuses : PopupsOf(i) # {}

\* C13: at most one fetch is made and none without an API key; a trigger is
\* armed and a popup shown only after a 2xx response; without a key, after a
\* rejected fetch or after a response that is not 2xx the list is empty,
\* nothing is armed or shown and init resolves.
C13_FetchFailures ==
    /\ fetches <= 1
    /\ ~hasApiKey => fetches = 0
    /\ ((\E i \in DOMAIN statuses : statuses[i].result = "armed") \/ popups # <<>>)
           => /\ hasApiKey
              /\ response.kind = "resolves"
              /\ response.status >= 200 /\ response.status <= 299
    /\ (\/ ~hasApiKey /\ initState # "idle"
        \/ response.kind = "rejects"
        \/ response.kind = "resolves" /\ ~(response.status >= 200 /\ response.status <= 299))
           => /\ candidates = <<>>
              /\ statuses = <<>>
              /\ triggered = {}
              /\ popups = <<>>
              /\ initState = "resolved"

\* the API answered 403
C13_Witness ==
    /\ hasApiKey
    /\ fetches = 1
    /\ response.kind = "resolves"
    /\ response.status = 403
    /\ initState = "resolved"

\* C14: whatever the fetched list, with candidates that lack rules, a frequency,
\* a trigger or an id, or that have unknown values, the promise of init is never
\* rejected.
C14_NothingEscapes == initState # "rejected"

\* whether the host is a child of the body
Attached(children, host) == \E k \in DOMAIN children : children[k] = host

\* C15: a show adds exactly one host to the document; a host leaves the
\* document only after the close callback of its own popup was invoked, is then
\* eventually detached, and a detached host is never attached again, however
\* often the close callback is invoked.
C15_HostLifecycle ==
    /\ [](\A p \in DOMAIN popups :
            Cardinality({k \in DOMAIN bodyChildren : bodyChildren[k] = p}) <= 1)
    /\ [][Len(popups') = Len(popups) + 1 =>
             /\ Len(bodyChildren') = Len(bodyChildren) + 1
             /\ Attached(bodyChildren', Len(popups'))
             /\ \A q \in DOMAIN popups :
                    Attached(bodyChildren, q) = Attached(bodyChildren', q)]_vars
    /\ [][\A p \in DOMAIN popups :
             /\ ~Attached(bodyChildren, p) => ~Attached(bodyChildren', p)
             /\ (Attached(bodyChildren, p) /\ ~Attached(bodyChildren', p))
                    => popups[p].onCloseCalls > 0]_vars
    /\ \A p \in 1..MaxPopups :
           (p \in DOMAIN popups /\ popups[p].onCloseCalls > 0)
               ~> ~Attached(bodyChildren, p)

\* the close callback of one popup ran twice and its host is gone, while the
\* host of another popup is still in the document
C15_Witness ==
    \E p, q \in DOMAIN popups :
        /\ p # q
        /\ popups[p].onCloseCalls = 2
        /\ popups[p].destroyTimers = 0
        /\ ~Attached(bodyChildren, p)
        /\ Attached(bodyChildren, q)

\* C16: for every show the renderer invokes onClose at most once, whatever
\* clicks on the close button, the overlay and the close buttons arrive.
C16_OnCloseAtMostOnce == \A p \in DOMAIN popups : popups[p].onCloseCalls <= 1

\* every popup shown so far was closed and no close is pending
AllClosed ==
    /\ popups # <<>>
    /\ \A p \in DOMAIN popups :
           /\ popups[p].onCloseCalls >= 1
           /\ popups[p].exitTimers = 0

\* C17: once every popup that was shown has been closed, the margins of the
\* body are what they were before any popup was shown.
C17_MarginRestored ==
    AllClosed => bodyMargin = [top |-> marginBefore, bottom |-> ""]

-----------------------------------------------------------------------------
(* Defaults and branding: properties *)

\* the design of the configuration as it was when the last merge was called,
\* and the design of the result
RawDesign == designAt(heapBefore, rawConfig)

MergedDesign == designAt(heap, mergedConfig)

\* every key the object at address given of the old heap sets to a value that
\* is not null has that value in the object at address kept of the heap
KeepsFields(given, kept, keys) ==
    \A key \in keys \cap DOMAIN heapBefore[given] :
        heapBefore[given][key] # Null =>
            /\ key \in DOMAIN heap[kept]
            /\ heap[kept][key] = heapBefore[given][key]

BrandedStyleKeys == {"backgroundColor", "textColor", "fontFamily", "borderRadius"}

\* C18: whatever the branding, the result of mergeWithDefaults has the value
\* of the configuration for every style field, button style field and content
\* image the configuration sets.
C18_ExplicitFieldsKept ==
    mergedConfig # 0 =>
        /\ truthy(Get(RawDesign, "style")) =>
               KeepsFields(RawDesign.style.ref, MergedDesign.style.ref, BrandedStyleKeys)
        /\ truthy(Get(RawDesign, "buttons")) =>
               \A i \in DOMAIN RawDesign.buttons.arr :
                   LET given == heapBefore[RawDesign.buttons.arr[i].ref]
                       kept == heap[MergedDesign.buttons.arr[i].ref]
                   IN  truthy(Get(given, "style")) =>
                           KeepsFields(given.style.ref, kept.style.ref,
                                       DOMAIN heapBefore[given.style.ref])
        /\ (truthy(Get(RawDesign, "content"))
              /\ truthy(Get(heapBefore[RawDesign.content.ref], "image"))) =>
               KeepsFields(heapBefore[RawDesign.content.ref].image.ref,
                           heap[MergedDesign.content.ref].image.ref,
                           DOMAIN heapBefore[heapBefore[RawDesign.content.ref].image.ref])

\* the headline or body the configuration gives, in its content or, in the
\* legacy shape, in the design itself
GivenText(key) ==
    IF truthy(Get(RawDesign, "content"))
    THEN Get(heapBefore[RawDesign.content.ref], key)
    ELSE Get(RawDesign, key)

\* the headline or body the renderer shows for the merged configuration
ShownText(key) == normalizeTextItem(heap, Get(rawContent(heap, MergedDesign), key))

\* C19: the renderer gets a headline and a body with text and style defined:
\* the text of the configuration when it gives one, as a string or as an
\* object, in its content or in a legacy design, and '' when it gives none;
\* the type of the configuration is kept.
C19_TextNormalized ==
    mergedConfig # 0 =>
        /\ \A key \in {"headline", "body"} :
               /\ {"text", "style"} \subseteq DOMAIN ShownText(key)
               /\ "str" \in DOMAIN GivenText(key) => ShownText(key).text = GivenText(key)
               /\ "ref" \in DOMAIN GivenText(key) =>
                      ShownText(key).text = heapBefore[GivenText(key).ref].text
               /\ GivenText(key) = Absent => ShownText(key).text = Str("")
        /\ truthy(Get(RawDesign, "type")) => MergedDesign.type = RawDesign.type

\* C20: after mergeWithDefaults every object of the configuration it was given
\* has the keys and values it had before the call.
C20_RawConfigUnchanged ==
    rawConfig # 0 =>
        \A a \in rawConfig .. (rawConfig + rawSize - 1) : heap[a] = heapBefore[a]

-----------------------------------------------------------------------------
(* Candidates without an id: properties *)

\* C21: whatever candidates without an id were shown before, the gate lets a
\* candidate without an id through for every cap, and no frequency key was
\* written for one.
C21_IdlessNeverCapped ==
    /\ \A config \in IdlessPool :
           shouldShowPopup(idString(config), capOf(config.rules.frequency))
    /\ prefixedKeys(sessionStorage) = {}
    /\ prefixedKeys(localStorage) = {}

-----------------------------------------------------------------------------
(* The renderer: properties *)

\* C22: of the buttons and the features of the configuration it was given, the
\* renderer draws the first 3 buttons and, in a modal, the first 5 features,
\* and nothing of the entries after them.
C22_FirstEntriesOnly ==
    mergedConfig # 0 =>
        /\ renderedButtons(heap, mergedConfig)
               = slice(buttonTexts(heap, designAt(heap, rawConfig)), 3)
        /\ Get(designAt(heap, mergedConfig), "type") # Str("top_bar") =>
               renderedFeatures(heap, mergedConfig)
                   = slice(featureTexts(heap, designAt(heap, rawConfig)), 5)

-----------------------------------------------------------------------------
(* clearAllPopupData: properties *)

\* what one store holds after a call, given what it held before
ClearedOf(before, after) ==
    /\ prefixedKeys(after) = {}
    /\ DOMAIN after = DOMAIN before \ prefixedKeys(before)
    /\ \A k \in DOMAIN after : after[k] = before[k]

\* C23: a call of clearAllPopupData leaves no key with the prefix in either
\* store, keeps every other key with its value, does not throw, and a second
\* call right after it would change nothing and would not throw either.
C23_ClearAll ==
    [][ClearAllPopupData =>
           /\ ClearedOf(sessionStorage, sessionStorage')
           /\ ClearedOf(localStorage, localStorage')
           /\ lastCall'.ret = "undefined"
           /\ clearAllPopupData'.session = sessionStorage'
           /\ clearAllPopupData'.local = localStorage'
           /\ ~clearAllPopupData'.threw]_vars

\* a call removed keys of both stores and the key of the page is still there
C23_Witness ==
    /\ lastCall.op = "clearAllPopupData"
    /\ lastCall.removed >= 2
    /\ sessionStorage = HostStore
    /\ localStorage = HostStore

-----------------------------------------------------------------------------
(* The overlay toggle of the modal form: properties *)

\* C24: a modal of the form with closeOnOverlay = false, which has no close
\* button and no button either, so that the overlay is all a visitor can
\* click, never has its onClose invoked.
C24_OverlayToggle ==
    \A p \in DOMAIN popups :
        (/\ isFalse(popups[p].config, "closeOnOverlay")
         /\ isFalse(popups[p].config, "showCloseButton")
         /\ "buttons" \notin DOMAIN popups[p].config)
            => popups[p].onCloseCalls = 0

-----------------------------------------------------------------------------
(* deepMerge: properties *)

\* result, an object of heap h2, is what the claim says deepMerge returns for
\* the objects target and source of heap h1
RECURSIVE MergedAs(_, _, _, _, _)
MergedAs(h2, result, h1, target, source) ==
    /\ DOMAIN result = DOMAIN target \cup {key \in DOMAIN source : source[key] # Null}
    /\ \A key \in DOMAIN result :
           IF Get(source, key) = Absent \/ Get(source, key) = Null
           THEN result[key] = target[key]
           ELSE IF isPlainObject(source[key])
           THEN /\ isPlainObject(result[key])
                /\ MergedAs(h2, h2[result[key].ref], h1,
                            spreadOf(h1, Get(target, key)), h1[source[key].ref])
           ELSE result[key] = source[key]

\* the object the defaults were merged with: config.design or config
MergedSource == designAt(heapBefore, rawConfig)

\* the defaults that were merged
MergedTarget == heapBefore[getDefaults(typeOf(heapBefore, heapBefore[rawConfig]))]

\* C25: for the defaults and the configuration of the last merge, deepMerge
\* returns an object with every key of the defaults, the default where the
\* configuration has nothing or null, the value of the configuration where it
\* is a scalar or an array, and the merge of the two where it is an object.
C25_DeepMerge ==
    mergedConfig # 0 =>
        \E m \in {deepMerge(heapBefore, MergedTarget, MergedSource)} :
            MergedAs(m.heap, m.heap[m.ref], heapBefore, MergedTarget, MergedSource)

\* a configuration with a null, an array and an object was merged
C25_Witness ==
    /\ mergedConfig # 0
    /\ Get(MergedSource, "maxWidth") = Null
    /\ Get(designAt(heap, mergedConfig), "maxWidth") = Str("90vw")
    /\ Len(Get(designAt(heap, mergedConfig), "buttons").arr) = 4
    /\ isPlainObject(Get(MergedSource, "content"))

-----------------------------------------------------------------------------
(* The type of a configuration: properties *)

\* C26: a configuration of type 'top_bar' is merged with the top bar defaults
\* and drawn as a top bar; every other configuration, one with an unknown
\* type or with none included, is merged with the modal defaults and drawn as
\* a modal is: the modal container with its overlay.
C26_TypeSelects ==
    mergedConfig # 0 =>
        IF typeOf(heapBefore, heapBefore[rawConfig]) = Str("top_bar")
        THEN /\ getDefaults(typeOf(heapBefore, heapBefore[rawConfig])) = TOP_BAR_DEFAULTS
             /\ rendererBranch(heap, mergedConfig) = "top_bar"
        ELSE /\ getDefaults(typeOf(heapBefore, heapBefore[rawConfig])) = MODAL_DEFAULTS
             /\ rendererBranch(heap, mergedConfig) = "modal"
             /\ hasOverlay(heap, mergedConfig)

-----------------------------------------------------------------------------
(* The shared default templates: properties *)

\* C27: whatever configurations were merged with whatever brandings, the
\* objects of TOP_BAR_DEFAULTS and MODAL_DEFAULTS are as the module created
\* them.
C27_DefaultsUntouched == SubSeq(heap, 1, Len(ModuleHeap)) = ModuleHeap

-----------------------------------------------------------------------------
(* One host per capped popup: properties *)

\* the hosts created on this page for an id under a cap that allows one show
HostsOnce(id) ==
    {p \in DOMAIN popups :
        /\ isString(popups[p].config, "id", id)
        /\ "frequency" \in DOMAIN Get(popups[p].config, "rules")
        /\ capOf(popups[p].config.rules.frequency) \in SessionCaps \cup LifetimeCaps}

\* C28: with working storage, at most one host is created for an id whose cap
\* is once_per_session, once_ever or once_lifetime.
C28_OneHostPerId ==
    storageMode = "ok" => \A id \in PopupIds : Cardinality(HostsOnce(id)) <= 1

-----------------------------------------------------------------------------
(* Where frequency state is written: properties *)

\* a step wrote to one of the stores
StorageWritten == sessionStorage' # sessionStorage \/ localStorage' # localStorage

\* a step created a host in the body for a popup that is not embedded
FullscreenShown ==
    /\ Len(popups') = Len(popups) + 1
    /\ "inTarget" \notin DOMAIN popups'[Len(popups')]
    /\ Len(bodyChildren') = Len(bodyChildren) + 1

\* a step is a showPopup call with an element as options.target
EmbeddedCall ==
    \E config \in ArmedPool, target \in Targets :
        /\ "nodeType" \in DOMAIN target
        /\ target.nodeType = 1
        /\ ShowPopupIn(config, target)

\* C29: a store changes only in a step that creates a fullscreen host, so
\* neither when a trigger is armed nor when one is cancelled; no popup is ever
\* shown for a cancelled trigger; and a showPopup call with an element as
\* target changes neither store nor the children of the body.
C29_WritesOnlyOnShow ==
    /\ [](\A p \in DOMAIN popups :
             popups[p].cand # 0 => statuses[popups[p].cand].result = "armed")
    /\ [][/\ StorageWritten => FullscreenShown
          /\ EmbeddedCall => UNCHANGED <<sessionStorage, localStorage, bodyChildren>>]_vars

\* a trigger was cancelled, a popup is embedded in a target, and another was
\* shown fullscreen and recorded
C29_Witness ==
    /\ \E i \in DOMAIN statuses : statuses[i].result = "cancelled"
    /\ \E p \in DOMAIN popups : "inTarget" \in DOMAIN popups[p]
    /\ \E p \in DOMAIN popups : "inTarget" \notin DOMAIN popups[p] /\ Attached(bodyChildren, p)
    /\ prefixedKeys(sessionStorage) \cup prefixedKeys(localStorage) # {}

-----------------------------------------------------------------------------
(* Branding of the style: properties *)

\* what the branding of the last merge supplies for a field of the style
BrandingFor(key) ==
    CASE key = "backgroundColor" -> Get(Get(usedBranding, "colors"), "background")
      [] key = "textColor" -> Get(Get(usedBranding, "colors"), "textPrimary")
      [] key = "borderRadius" -> Get(Get(usedBranding, "spacing"), "borderRadius")

\* the configuration of the last merge sets no such field in its style
UnsetInRaw(key) ==
    \/ ~truthy(Get(RawDesign, "style"))
    \/ Get(heapBefore[RawDesign.style.ref], key) = Absent

\* C30: for backgroundColor, textColor and borderRadius, a field the
\* configuration leaves unset and the branding supplies has the value of the
\* branding in the result of mergeWithDefaults.
C30_BrandingFills ==
    mergedConfig # 0 =>
        \A key \in {"backgroundColor", "textColor", "borderRadius"} :
            (truthy(BrandingFor(key)) /\ UnsetInRaw(key)) =>
                Get(heap[MergedDesign.style.ref], key) = BrandingFor(key)

=============================================================================
